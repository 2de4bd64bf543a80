---------------------------- MODULE DonationProofs ----------------------------
(***************************************************************************)
(* Proofs about the donation form: the calls that share one request for the *)
(* prices never leave an estimate of fields that have changed since beside  *)
(* the address, and after a click the message agrees with it.               *)
(***************************************************************************)
EXTENDS Donation, TLAPS

(* While the amount is valid, the call that resumes last has read the       *)
(* fields that the form shows; it is a click if none changed since one.     *)
LastIsCurrent ==
  waiting # <<>> /\ amount > 0 =>
    /\ waiting[Len(waiting)].coin = coin
    /\ waiting[Len(waiting)].amount = amount
    /\ prepared => waiting[Len(waiting)].show

DonationInv == TypeOK /\ LastIsCurrent /\ EstimateIsCurrent /\ MessageAgrees

-----------------------------------------------------------------------------
LEMMA LastOfAppend ==
  ASSUME NEW S, NEW s \in Seq(S), NEW e \in S
  PROVE  /\ Append(s, e) \in Seq(S) /\ Append(s, e) # <<>>
         /\ Append(s, e)[Len(Append(s, e))] = e
OBVIOUS

LEMMA LastInSeq ==
  ASSUME NEW S, NEW s \in Seq(S), s # <<>>
  PROVE  Len(s) \in DOMAIN s /\ s[Len(s)] \in S
OBVIOUS

LEMMA CallFields ==
  ASSUME NEW call \in Call
  PROVE  call.coin \in Coins /\ call.amount \in Amounts /\ call.show \in BOOLEAN
BY DEF Call

LEMMA TextInLine ==
  ASSUME NEW texts, NEW text \in texts
  PROVE  Text(text) \in Line(texts) /\ Text(text).text = text
BY DonationAssumption DEF Text, Line

(* An answer is a line of the page, and an estimate is of the call's fields. *)
LEMMA AnswerIs ==
  ASSUME NEW c \in Coins, NEW n \in Amounts, NEW call,
         call.coin = c, call.amount = n, NEW p
  PROVE  /\ Answer(call, p) \in Line(Answers \cup {"getting"})
         /\ Answer(call, p) \in Line(Answers \cup {"none", "copied"})
         /\ Answer(call, p).text = "estimate" =>
              /\ Answer(call, p).coin = c /\ Answer(call, p).amount = n
<1>1. CASE call.coin \in p
  <2>1. Answer(call, p) = [text |-> "estimate", coin |-> c, amount |-> n]
    BY <1>1 DEF Answer, Estimate
  <2> QED
    BY <2>1 DEF Line, Answers
<1>2. CASE call.coin \notin p
  <2>1. Answer(call, p) = Text("unavailable")
    BY <1>2 DEF Answer
  <2>2. /\ "unavailable" \in Answers \cup {"getting"}
        /\ "unavailable" \in Answers \cup {"none", "copied"}
    BY DEF Answers
  <2> QED
    BY <2>1, <2>2, TextInLine
<1> QED
  BY <1>1, <1>2

LEMMA ShowIs ==
  ASSUME NEW c \in Coins, NEW n \in Amounts, NEW call,
         call.coin = c, call.amount = n, NEW p, Show(call, p)
  PROVE  /\ output' \in Line(Answers \cup {"getting"})
         /\ wallet' \in (Coins \ {Fixed}) \cup {None} /\ wallet' \in {c, None}
         /\ output'.text = "estimate" => output'.coin = c /\ output'.amount = n
<1>1. output' = Answer(call, p)
  BY DEF Show
<1>2. /\ wallet' \in (Coins \ {Fixed}) \cup {None} /\ wallet' \in {c, None}
  BY DEF Show
<1> QED
  BY <1>1, <1>2, AnswerIs

LEMMA InitDonation == Init => DonationInv
<1> SUFFICES ASSUME Init PROVE DonationInv
  OBVIOUS
<1>1. output \in Line(Answers \cup {"getting"}) /\ output.text = "enter an amount"
  BY TextInLine DEF Init, Answers
<1>2. message \in Line(Answers \cup {"none", "copied"})
  BY TextInLine DEF Init
<1>3. TypeOK
  <2>1. <<>> \in Seq(Call)
    OBVIOUS
  <2>2. waiting = <<>> /\ prices = "none" /\ wallet = None /\ priced = {}
        /\ prepared = FALSE /\ coin \in Coins /\ amount \in Amounts
    BY DonationAssumption DEF Init
  <2> QED
    BY <1>1, <1>2, <2>1, <2>2 DEF TypeOK
<1>4. EstimateIsCurrent
  BY <1>1 DEF EstimateIsCurrent
<1> QED
  BY <1>3, <1>4 DEF Init, DonationInv, LastIsCurrent, MessageAgrees

-----------------------------------------------------------------------------
(* A change of the form, or a click for the fields it has: show tells which. *)
LEMMA PrepareKeeps ==
  ASSUME DonationInv, NEW show \in BOOLEAN, Prepare(show), prepared' = show,
         coin' \in Coins, amount' \in Amounts
  PROVE  DonationInv'
<1>1. TypeOK /\ LastIsCurrent /\ EstimateIsCurrent
  BY DEF DonationInv
<1>2. /\ Now(show) \in Call /\ Now(show).coin = coin'
      /\ Now(show).amount = amount' /\ Now(show).show = show
  BY DEF Now, Call
<1>3. waiting \in Seq(Call) /\ prepared' \in BOOLEAN
  BY <1>1 DEF TypeOK
<1>4. CASE /\ amount' = 0 /\ output' = Text("enter an amount") /\ wallet' = None
           /\ Tell(show, Text("enter an amount"))
           /\ UNCHANGED <<prices, priced, waiting>>
  <2>1. output' \in Line(Answers \cup {"getting"})
    BY <1>4, TextInLine DEF Answers
  <2>2. message' \in Line(Answers \cup {"none", "copied"})
    <3>1. Text("enter an amount") \in Line(Answers \cup {"none", "copied"})
      BY TextInLine DEF Answers
    <3> QED
      BY <1>1, <1>4, <3>1 DEF Tell, TypeOK
  <2>3. TypeOK'
    BY <1>1, <1>3, <1>4, <2>1, <2>2 DEF TypeOK
  <2>4. ~(amount' > 0)
    <3>1. amount' = 0
      BY <1>4
    <3> QED
      BY <3>1
  <2> QED
    BY <2>3, <2>4
       DEF DonationInv, LastIsCurrent, EstimateIsCurrent, MessageAgrees
<1>5. CASE /\ amount' > 0 /\ prices \in {"none", "asked"} /\ prices' = "asked"
           /\ waiting' = Append(waiting, Now(show))
           /\ output' = Text("getting") /\ UNCHANGED <<priced, wallet, message>>
  <2>1. output' \in Line(Answers \cup {"getting"}) /\ output'.text = "getting"
    BY <1>5, TextInLine
  <2>2. /\ waiting' \in Seq(Call) /\ waiting' # <<>>
        /\ waiting'[Len(waiting')] = Now(show)
    BY <1>2, <1>3, <1>5, LastOfAppend
  <2>3. TypeOK'
    BY <1>1, <1>3, <1>5, <2>1, <2>2 DEF TypeOK
  <2>4. LastIsCurrent'
    BY <1>2, <2>2 DEF LastIsCurrent
  <2> QED
    BY <2>1, <2>2, <2>3, <2>4 DEF DonationInv, EstimateIsCurrent, MessageAgrees
<1>6. CASE /\ amount' > 0 /\ prices = "known" /\ Show(Now(show), priced)
           /\ Tell(show, Answer(Now(show), priced))
           /\ UNCHANGED <<prices, priced, waiting>>
  <2>1. waiting' = <<>>
    BY <1>1, <1>6 DEF TypeOK
  <2>2. /\ output' \in Line(Answers \cup {"getting"})
        /\ wallet' \in (Coins \ {Fixed}) \cup {None} /\ wallet' \in {coin', None}
        /\ output'.text = "estimate" =>
             output'.coin = coin' /\ output'.amount = amount'
    BY <1>2, <1>6, ShowIs
  <2>3. /\ message' \in Line(Answers \cup {"none", "copied"})
        /\ show => message' = output'
    <3>1. Answer(Now(show), priced) \in Line(Answers \cup {"none", "copied"})
      BY <1>2, AnswerIs
    <3> QED
      BY <1>1, <1>6, <3>1 DEF Tell, Show, TypeOK
  <2>4. TypeOK'
    BY <1>1, <1>3, <1>6, <2>2, <2>3 DEF TypeOK
  <2> QED
    BY <2>1, <2>2, <2>3, <2>4
       DEF DonationInv, LastIsCurrent, EstimateIsCurrent, MessageAgrees
<1> QED
  BY <1>4, <1>5, <1>6 DEF Prepare

(* The prices come, or the request for them fails.                          *)
LEMMA ResumeKeeps ==
  ASSUME DonationInv, NEW p \in SUBSET Coins, Fixed \in p, Resume(p)
  PROVE  DonationInv'
<1> DEFINE last == waiting[Len(waiting)]
<1>1. TypeOK /\ LastIsCurrent
  BY DEF DonationInv
<1>2. /\ prices = "asked" /\ prices' = "known" /\ priced' = p /\ waiting' = <<>>
      /\ Show(last, p) /\ UNCHANGED <<coin, amount, prepared>>
  BY DEF Resume, AllResume, LastToShow
<1>3. /\ waiting \in Seq(Call) /\ waiting # <<>>
      /\ Len(waiting) \in DOMAIN waiting /\ last \in Call
  BY <1>1, <1>2, LastInSeq DEF TypeOK
<1>4. last.coin \in Coins /\ last.amount \in Amounts
  BY <1>3, CallFields
<1>5. /\ output' \in Line(Answers \cup {"getting"})
      /\ wallet' \in (Coins \ {Fixed}) \cup {None} /\ wallet' \in {last.coin, None}
      /\ output'.text = "estimate" =>
           output'.coin = last.coin /\ output'.amount = last.amount
  BY <1>2, <1>4, ShowIs
<1>6. message' \in Line(Answers \cup {"none", "copied"})
  <2>1. ASSUME NEW i \in DOMAIN waiting
        PROVE  Answer(waiting[i], p) \in Line(Answers \cup {"none", "copied"})
    <3>1. waiting[i] \in Call
      BY <1>3
    <3>2. waiting[i].coin \in Coins /\ waiting[i].amount \in Amounts
      BY <3>1, CallFields
    <3> QED
      BY <3>2, AnswerIs
  <2> QED
    BY <1>1, <2>1 DEF Resume, TypeOK
\* If the last call is a click, it is the last of the clicks.
<1>7. last.show => message' = output'
  <2> SUFFICES ASSUME last.show PROVE message' = output'
    OBVIOUS
  <2>1. PICK i \in DOMAIN waiting :
          LastAsker(waiting, i) /\ message' = Answer(waiting[i], p)
    BY <1>3 DEF Resume
  <2>2. i = Len(waiting)
    <3>1. Len(waiting) <= i
      BY <1>3, <2>1 DEF LastAsker
    <3>2. i \in 1 .. Len(waiting) /\ Len(waiting) \in Nat
      BY <1>3, <2>1
    <3> QED
      BY <3>1, <3>2
  <2> QED
    BY <1>2, <2>1, <2>2 DEF Show
<1>8. TypeOK'
  <2>1. <<>> \in Seq(Call)
    OBVIOUS
  <2> QED
    BY <1>1, <1>2, <1>5, <1>6, <2>1 DEF TypeOK
<1>9. EstimateIsCurrent'
  BY <1>1, <1>2, <1>3, <1>5 DEF EstimateIsCurrent, LastIsCurrent
<1>10. MessageAgrees'
  BY <1>1, <1>2, <1>3, <1>7 DEF MessageAgrees, LastIsCurrent
<1> QED
  BY <1>2, <1>8, <1>9, <1>10 DEF DonationInv, LastIsCurrent

LEMMA CopyKeeps == ASSUME DonationInv, CopyDonationValue PROVE DonationInv'
<1>1. TypeOK /\ LastIsCurrent /\ EstimateIsCurrent
  BY DEF DonationInv
<1>2. message' \in Line(Answers \cup {"none", "copied"}) /\ message'.text = "copied"
  BY TextInLine DEF CopyDonationValue
<1>3. TypeOK'
  BY <1>1, <1>2 DEF CopyDonationValue, TypeOK
<1> QED
  BY <1>1, <1>2, <1>3
     DEF CopyDonationValue, DonationInv, LastIsCurrent, EstimateIsCurrent,
         MessageAgrees

LEMMA NextDonation == ASSUME DonationInv, [Next]_vars PROVE DonationInv'
<1>1. coin \in Coins /\ amount \in Amounts
  BY DEF DonationInv, TypeOK
<1>2. ASSUME NEW c \in Coins, ChooseCoin(c) PROVE DonationInv'
  BY <1>1, <1>2, PrepareKeeps DEF ChooseCoin
<1>3. ASSUME NEW n \in Amounts, EnterAmount(n) PROVE DonationInv'
  BY <1>1, <1>3, PrepareKeeps DEF EnterAmount
<1>4. CASE AskAgain
  BY <1>1, <1>4, PrepareKeeps DEF AskAgain
<1>5. CASE CopyDonationValue
  BY <1>5, CopyKeeps
<1>6. CASE PricesArrive
  <2>1. PICK have \in SUBSET Coins : Resume(have \cup {Fixed})
    BY <1>6 DEF PricesArrive
  <2>2. have \cup {Fixed} \in SUBSET Coins /\ Fixed \in have \cup {Fixed}
    BY DonationAssumption
  <2> QED
    BY <2>1, <2>2, ResumeKeeps
<1>7. CASE PricesFail
  <2>1. {Fixed} \in SUBSET Coins /\ Fixed \in {Fixed}
    BY DonationAssumption
  <2> QED
    BY <1>7, <2>1, ResumeKeeps DEF PricesFail, WithFallback
<1>8. CASE UNCHANGED vars
  BY <1>8 DEF vars, DonationInv, TypeOK, LastIsCurrent, EstimateIsCurrent,
              MessageAgrees
<1> QED
  BY <1>2, <1>3, <1>4, <1>5, <1>6, <1>7, <1>8 DEF Next

-----------------------------------------------------------------------------
(* The calls that wait are exactly those made since the prices were asked   *)
(* for, whatever the user does meanwhile.                                   *)
THEOREM DonationTypeCorrect == Spec => []TypeOK
<1>1. DonationInv => TypeOK
  BY DEF DonationInv
<1> QED
  BY <1>1, InitDonation, NextDonation, PTL DEF Spec

(* An estimate beside the address is of the fields the form shows, and so   *)
(* is the wallet, for every order of changes and of the end of the request  *)
(* for the prices, and for every coin the reply lacks (prepareDonation,     *)
(* which reads the fields before it awaits).                                *)
THEOREM EstimateStaysCurrent == Spec => []EstimateIsCurrent
<1>1. DonationInv => EstimateIsCurrent
  BY DEF DonationInv
<1> QED
  BY <1>1, InitDonation, NextDonation, PTL DEF Spec

(* After a click, and until a field changes, the message of the form and    *)
(* the line beside the address say the same, however many calls of other    *)
(* fields waited with it (prepareDonation with showMessage).                *)
THEOREM MessageStaysCurrent == Spec => []MessageAgrees
<1>1. DonationInv => MessageAgrees
  BY DEF DonationInv
<1> QED
  BY <1>1, InitDonation, NextDonation, PTL DEF Spec
=============================================================================
