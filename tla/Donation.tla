------------------------------- MODULE Donation -------------------------------
(***************************************************************************)
(* The donation estimate of website/app.js: a call of prepareDonation for   *)
(* every change of the coin or the amount and for every click of "Prepare   *)
(* donation", which awaits the prices, and one request for the prices,      *)
(* which the calls share.                                                   *)
(*                                                                         *)
(* When the request ends, the calls that wait for it resume in the order    *)
(* they were made, and no event of the user comes between them.  A call     *)
(* made once the prices are there resumes before the next event, too.       *)
(*                                                                         *)
(* The page answers in two places.  Every call writes the amount beside the *)
(* address; only a click writes the message of the form, and nothing takes  *)
(* it back when the fields change.                                          *)
(***************************************************************************)
EXTENDS Naturals, Sequences

CONSTANTS
  Coins,       \* the cryptocurrencies; USDT has a price in any case
  Fixed,       \* USDT
  Amounts,     \* amounts in USD; 0 stands for one that is not valid
  MaxWaiting,  \* bound: calls that wait for the prices
  None

ASSUME DonationAssumption ==
  /\ Fixed \in Coins /\ 0 \in Amounts /\ Amounts \subseteq Nat /\ MaxWaiting \in Nat

VARIABLES
  coin, amount,   \* the fields of the form
  prices,         \* donationUsdPrices: none, asked for, or known
  priced,         \* the coins it has a price for
  waiting,        \* the calls that wait, each with the fields it has read
  output,         \* donationPreparedAmount
  wallet,         \* the coin openDonationWallet pays in, None when it is hidden
  message,        \* donationMessage
  prepared        \* history: no field has changed since the last click

vars == <<coin, amount, prices, priced, waiting, output, wallet, message, prepared>>

Call == [coin : Coins, amount : Amounts, show : BOOLEAN]
Answers == {"enter an amount", "unavailable", "estimate"}
Line(texts) == [text : texts, coin : Coins \cup {None}, amount : Amounts]
Text(text) == [text |-> text, coin |-> None, amount |-> 0]
Estimate(call) == [text |-> "estimate", coin |-> call.coin, amount |-> call.amount]
Now(show) == [coin |-> coin', amount |-> amount', show |-> show]

(* Type invariant.  Calls wait while the prices are asked for, and only     *)
(* then; prices that are known have one for USDT.                           *)
TypeOK ==
  /\ coin \in Coins /\ amount \in Amounts
  /\ prices \in {"none", "asked", "known"}
  /\ priced \in SUBSET Coins
  /\ Fixed \in priced <=> prices = "known"
  /\ waiting \in Seq(Call)
  /\ waiting # <<>> <=> prices = "asked"
  /\ output \in Line(Answers \cup {"getting"})
  /\ wallet \in (Coins \ {Fixed}) \cup {None}
  /\ message \in Line(Answers \cup {"none", "copied"})
  /\ prepared \in BOOLEAN

Init ==
  /\ coin \in Coins /\ amount = 0
  /\ prices = "none" /\ priced = {} /\ waiting = <<>>
  /\ output = Text("enter an amount") /\ wallet = None
  /\ message = Text("none") /\ prepared = FALSE

-----------------------------------------------------------------------------
(* What prepareDonation answers for the fields it has read, when p are the  *)
(* coins that have a price.                                                 *)
Answer(call, p) == IF call.coin \in p THEN Estimate(call) ELSE Text("unavailable")

(* It writes the answer beside the address, and has the wallet opened in a  *)
(* coin other than USDT.                                                    *)
Show(call, p) ==
  /\ output' = Answer(call, p)
  /\ wallet' = IF call.coin \in p /\ call.coin # Fixed THEN call.coin ELSE None

(* With showMessage it writes the answer into the message as well.          *)
Tell(show, line) == message' = IF show THEN line ELSE message

(* prepareDonation: the first call asks for the prices, and one that comes  *)
(* while they are asked for waits with it (loadDonationUsdPrices).          *)
Prepare(show) ==
  \/ /\ amount' = 0
     /\ output' = Text("enter an amount") /\ wallet' = None
     /\ Tell(show, Text("enter an amount"))
     /\ UNCHANGED <<prices, priced, waiting>>
  \/ /\ amount' > 0 /\ prices \in {"none", "asked"}
     /\ Len(waiting) < MaxWaiting
     /\ prices' = "asked" /\ waiting' = Append(waiting, Now(show))
     /\ output' = Text("getting")
     /\ UNCHANGED <<priced, wallet, message>>
  \/ /\ amount' > 0 /\ prices = "known"
     /\ Show(Now(show), priced)
     /\ Tell(show, Answer(Now(show), priced))
     /\ UNCHANGED <<prices, priced, waiting>>

(* The user chooses a coin, types an amount, or clicks "Prepare donation".  *)
ChooseCoin(c) ==
  c # coin /\ coin' = c /\ UNCHANGED amount /\ prepared' = FALSE /\ Prepare(FALSE)
EnterAmount(n) ==
  n # amount /\ amount' = n /\ UNCHANGED coin /\ prepared' = FALSE /\ Prepare(FALSE)
AskAgain == UNCHANGED <<coin, amount>> /\ prepared' = TRUE /\ Prepare(TRUE)

(* The user copies the address, or the amount: the same message says so.    *)
CopyDonationValue ==
  /\ message' = Text("copied")
  /\ UNCHANGED <<coin, amount, prices, priced, waiting, output, wallet, prepared>>

-----------------------------------------------------------------------------
(* Of the calls that resume, the last one decides what is shown.            *)
FirstToShow(calls) == calls[1]   \* mutant: resumed in the opposite order
LastToShow(calls) == calls[Len(calls)]

(* The last click among them decides what the message says.                 *)
FirstAsker(calls, i) ==          \* mutant: resumed in the opposite order
  calls[i].show /\ \A j \in DOMAIN calls : calls[j].show => i <= j
LastAsker(calls, i) ==
  calls[i].show /\ \A j \in DOMAIN calls : calls[j].show => j <= i

OneResumes(calls) == Tail(calls)   \* mutant: an answer for each call of its own
AllResume(calls) == <<>>

Resume(p) ==
  /\ prices = "asked"
  /\ prices' = "known" /\ priced' = p
  /\ waiting' = AllResume(waiting)
  /\ Show(LastToShow(waiting), p)
  /\ \/ \E i \in DOMAIN waiting :
          LastAsker(waiting, i) /\ message' = Answer(waiting[i], p)
     \/ (\A i \in DOMAIN waiting : ~waiting[i].show) /\ UNCHANGED message
  /\ UNCHANGED <<coin, amount, prepared>>

(* The reply may lack the price of any coin; USDT then counts as one USD.   *)
PricesArrive == \E have \in SUBSET Coins : Resume(have \cup {Fixed})

NeverAnswered == UNCHANGED vars   \* mutant: the error is not caught
WithFallback == Resume({Fixed})

(* A request that fails leaves the fallback in place of the prices: every   *)
(* later call takes it for them, and none asks again.                       *)
PricesFail == WithFallback

Next ==
  \/ \E c \in Coins : ChooseCoin(c)
  \/ \E n \in Amounts : EnterAmount(n)
  \/ AskAgain \/ CopyDonationValue \/ PricesArrive \/ PricesFail

(* A request that is not answered fails in the end.                         *)
Spec == Init /\ [][Next]_vars /\ WF_vars(PricesFail)

-----------------------------------------------------------------------------
(* While the amount is valid, an estimate that stands beside the address is *)
(* of this amount in the coin of the address, and the wallet that opens is  *)
(* of this coin.  (When the amount was cleared while a call waited, it may  *)
(* be of another.)  Of the message of the form this says nothing.           *)
EstimateIsCurrent ==
  (amount > 0 /\ output.text = "estimate") =>
    /\ output.coin = coin /\ output.amount = amount
    /\ wallet \in {coin, None}

(* As long as no field changes after a click of "Prepare donation", and the *)
(* prices are there, the message of the form says what stands beside the    *)
(* address, or that something was copied: the calls that waited before the  *)
(* click, clicks with other fields among them, do not have the last word.   *)
(* Once a field changes, the message keeps what the click was answered.     *)
MessageAgrees ==
  (prepared /\ amount > 0 /\ waiting = <<>>) =>
    message = output \/ message.text = "copied"

(* No estimate is announced for ever: prepareDonation shows one, or says    *)
(* that there is none, whether the prices come or not.                      *)
EstimateComes == (output.text = "getting") ~> (output.text # "getting")
=============================================================================
