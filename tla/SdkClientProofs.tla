---------------------------- MODULE SdkClientProofs ----------------------------
(***************************************************************************)
(* Proofs about the client of the SDKs: it reports a success only for a     *)
(* license that was good since the call was made, and, as long as its calls *)
(* do not overlap, it stays in step with the Worker's row.                  *)
(***************************************************************************)
EXTENDS SdkClient, TLAPS

(* A call that is still under way has a name that nothing else uses.        *)
NamesInv ==
  \A c \in Made :
    /\ c \notin {token, challenge}
    /\ \A d \in Made : c \notin {calls[d].token, calls[d].challenge}
    /\ calls[c].request => \A s \in Calls : held[s] # c

(* A response answers the call it is for, and a success says that the       *)
(* license was good.                                                        *)
Answered(c) == calls[c].reply # None /\ calls[c].reply = Success(c)

RepliesInv ==
  \A c \in Calls :
    /\ calls[c].reply # None =>
         /\ calls[c].waiting /\ ~calls[c].request
         /\ calls[c].reply \in {Success(c), Failure(calls[c].kind)}
    /\ calls[c].waiting /\ entitled => calls[c].seen
    /\ Answered(c) => calls[c].seen

(* While no call was abandoned: the client waits for one call at a time, a  *)
(* success on its way carries the challenge that the row holds, and after a *)
(* success no request that is late can redeem the client's challenge.       *)
Settled == awaiting = None /\ last \in {"activated", "valid"}

Synced ==
  /\ token # None
  /\ held[token] \in {challenge, None}
  /\ \A d \in Made : calls[d].token = token => calls[d].challenge # challenge

Waits(c) ==
  /\ calls[c].waiting => c = awaiting
  /\ calls[c].waiting /\ calls[c].kind = "check" =>
       token = calls[c].token /\ token # None
  /\ Answered(c) => held[IF calls[c].kind = "check" THEN token ELSE c] \in {c, None}

SyncInv ==
  abandoned = 0 => /\ \A c \in Calls : Waits(c)
                   /\ Settled => Synced

ClientInv == TypeOK /\ NamesInv /\ RepliesInv /\ SyncInv

-----------------------------------------------------------------------------
LEMMA NoneIsNoValue ==
  /\ \A c \in Calls : c # None
  /\ \A k \in Kinds : k # None
  /\ \A e \in Envelope : e # None
  /\ None \notin {"activated", "valid"}
BY ClientAssumption

LEMMA InitClient == Init => ClientInv
<1> SUFFICES ASSUME Init PROVE ClientInv
  OBVIOUS
<1>1. calls = [c \in Calls |-> NotMade] /\ \A c \in Calls : calls[c] = NotMade
  BY DEF Init
<1>2. NotMade \in Call
  BY DEF NotMade, Call
<1>3. TypeOK
  BY <1>1, <1>2, ClientAssumption DEF Init, ClientInit, TypeOK, NotMade
<1>4. \A c \in Calls : calls[c].kind = None /\ calls[c].reply = None /\ ~calls[c].waiting
  BY <1>1 DEF NotMade
<1>5. \A c \in Calls : ~Answered(c)
  BY <1>4 DEF Answered
<1> QED
  BY <1>3, <1>4, <1>5, NoneIsNoValue DEF ClientInv, NamesInv, RepliesInv, SyncInv, Made, Waits,
     Settled, Init

-----------------------------------------------------------------------------
(* One call changes, to q.                                                  *)
LEMMA OneCall ==
  ASSUME TypeOK, NEW c \in Calls, NEW q, calls' = [calls EXCEPT ![c] = q]
  PROVE  /\ calls'[c] = q
         /\ \A d \in Calls \ {c} : calls'[d] = calls[d]
         /\ q \in Call => calls' \in [Calls -> Call]
         /\ q.kind # None => Made' = Made \cup {c}
         /\ q.kind = None => Made' = Made \ {c}
         /\ (\A d \in Calls : calls[d].kind = None => ~calls[d].waiting /\ ~calls[d].request)
            /\ (q.kind = None => ~q.waiting /\ ~q.request)
            => \A d \in Calls : calls'[d].kind = None => ~calls'[d].waiting /\ ~calls'[d].request
<1>1. calls \in [Calls -> Call]
  BY DEF TypeOK
<1>2. calls'[c] = q /\ \A d \in Calls \ {c} : calls'[d] = calls[d]
  BY <1>1
<1>3. q \in Call => calls' \in [Calls -> Call]
  BY <1>1
<1>4. q.kind # None => Made' = Made \cup {c}
  BY <1>2 DEF Made
<1>5. q.kind = None => Made' = Made \ {c}
  BY <1>2 DEF Made
<1> QED
  BY <1>2, <1>3, <1>4, <1>5

LEMMA FreshIsUnused ==
  ASSUME ~(Calls \subseteq InUse) PROVE Fresh \in Calls /\ Fresh \notin InUse
BY DEF Fresh

(* The name of a new call is fresh, and the calls that are made with the    *)
(* client's token and challenge refer to no call that is under way.         *)
LEMMA PostKeeps ==
  ASSUME ClientInv, NEW c \in Calls, NEW kind \in Kinds,
         NEW t \in {None, token}, NEW x \in {None, challenge},
         kind = "check" => t = token /\ token # None,
         Post(c, kind, t, x)
  PROVE  ClientInv'
<1> DEFINE q == [kind |-> kind, waiting |-> TRUE, request |-> TRUE, reply |-> None,
                 token |-> t, challenge |-> x, seen |-> entitled]
<1>1. /\ c \notin InUse /\ awaiting = None
      /\ calls' = [calls EXCEPT ![c] = q]
      /\ awaiting' = c /\ last' = None
      /\ held' = [s \in Calls |-> IF s \in Live THEN held[s] ELSE None]
      /\ UNCHANGED <<token, challenge, abandoned, entitled>>
  BY FreshIsUnused DEF Post, client
<1>2. TypeOK /\ NamesInv /\ RepliesInv /\ SyncInv
  BY DEF ClientInv
<1>3. q \in Call
  BY <1>2 DEF TypeOK, Call
<1>4. /\ q.kind = kind /\ q.waiting /\ q.request /\ q.reply = None
      /\ q.token = t /\ q.challenge = x /\ q.seen = entitled /\ kind # None
  BY NoneIsNoValue
<1> HIDE DEF q
<1>5. /\ calls'[c] = q /\ \A d \in Calls \ {c} : calls'[d] = calls[d]
      /\ calls' \in [Calls -> Call] /\ Made' = Made \cup {c}
      /\ \A d \in Calls : calls'[d].kind = None => ~calls'[d].waiting /\ ~calls'[d].request
  BY <1>1, <1>2, <1>3, <1>4, OneCall DEF TypeOK
<1>6. /\ c \notin {token, challenge} /\ c \notin Made
      /\ \A d \in Made : c \notin {calls[d].token, calls[d].challenge}
      /\ \A s \in Live : s # None => held[s] # c
  BY <1>1 DEF InUse, Live
<1>7. \A s \in Calls : held'[s] \in {held[s], None} /\ held'[s] # c
  BY <1>1, <1>6, NoneIsNoValue
<1>8. TypeOK'
  BY <1>1, <1>2, <1>5 DEF TypeOK
<1>9. NamesInv'
  <2>1. ASSUME NEW d \in Made, d # c
        PROVE  /\ d \in Calls /\ calls'[d] = calls[d]
               /\ d \notin {token, challenge, t, x}
               /\ \A e \in Made : d \notin {calls[e].token, calls[e].challenge}
               /\ calls[d].request => \A s \in Calls : held'[s] # d
    BY <1>2, <1>5, <1>7, <2>1, NoneIsNoValue DEF NamesInv, Made
  <2>2. \A d \in Made : d # c /\ d \in Calls
    BY <1>6 DEF Made
  <2>3. \A d \in Made : calls'[d].token = calls[d].token
                        /\ calls'[d].challenge = calls[d].challenge
    BY <1>5, <2>2
  <2>4. c \notin {t, x}
    BY <1>6, NoneIsNoValue
  <2>5. ASSUME NEW d \in Made \cup {c}
        PROVE  /\ d \notin {token, challenge}
               /\ \A e \in Made \cup {c} : d \notin {calls'[e].token, calls'[e].challenge}
               /\ calls'[d].request => \A s \in Calls : held'[s] # d
    BY <1>4, <1>5, <1>6, <1>7, <2>1, <2>2, <2>3, <2>4, <2>5
  <2> QED
    BY <1>1, <1>5, <2>5 DEF NamesInv
<1>10. RepliesInv'
  <2>1. ~Answered(c)' /\ calls'[c].reply = None /\ calls'[c].seen = entitled
    BY <1>4, <1>5 DEF Answered
  <2>2. ASSUME NEW d \in Calls, d # c
        PROVE  calls'[d] = calls[d] /\ (Answered(d)' <=> Answered(d))
    BY <1>5, <2>2 DEF Answered, Success
  <2> QED
    BY <1>1, <1>2, <2>1, <2>2 DEF RepliesInv, Success, Failure
<1>11. SyncInv'
  <2> SUFFICES ASSUME abandoned = 0 PROVE \A d \in Calls : Waits(d)'
    BY <1>1, NoneIsNoValue DEF SyncInv, Settled
  <2>1. Waits(c)'
    BY <1>1, <1>4, <1>5 DEF Waits, Answered
  <2>2. ASSUME NEW d \in Calls \ {c} PROVE Waits(d)'
    <3>1. ~calls[d].waiting /\ ~Answered(d) /\ calls'[d] = calls[d]
      BY <1>1, <1>2, <1>5, NoneIsNoValue DEF SyncInv, Waits, RepliesInv, Answered
    <3> QED
      BY <3>1 DEF Waits, Answered, Success
  <2> QED
    BY <2>1, <2>2
<1> QED
  BY <1>8, <1>9, <1>10, <1>11 DEF ClientInv

(* What only the application does.                                          *)
LEMMA ApplicationKeeps ==
  ASSUME ClientInv, CheckWithoutSession \/ ClearSession \/ Abandon
  PROVE  ClientInv'
<1>1. /\ UNCHANGED <<calls, held, entitled>>
      /\ \/ UNCHANGED <<token, challenge>>
         \/ /\ token' = None /\ challenge' = None
            /\ awaiting = None /\ awaiting' = None
      /\ last' \notin {"activated", "valid"} /\ awaiting' \in {awaiting, None}
      /\ last' \in {None, "failed"}
      /\ \/ UNCHANGED <<abandoned, awaiting>>
         \/ abandoned' = abandoned + 1 /\ abandoned < MaxAbandoned
  BY NoneIsNoValue DEF CheckWithoutSession, ClearSession, Abandon, client, worker
<1>2. TypeOK /\ NamesInv /\ RepliesInv /\ SyncInv
  BY DEF ClientInv
<1>3. TypeOK'
  BY <1>1, <1>2, ClientAssumption DEF TypeOK
<1>4. NamesInv'
  <2>1. UNCHANGED Made /\ \A c \in Made : c # None
    BY <1>1, NoneIsNoValue DEF Made
  <2> QED
    BY <1>1, <1>2, <2>1 DEF NamesInv
<1>5. RepliesInv'
  BY <1>1, <1>2 DEF RepliesInv, Answered, Success, Failure
<1>6. SyncInv'
  <2> SUFFICES ASSUME abandoned' = 0 PROVE \A c \in Calls : Waits(c)'
    BY <1>1 DEF SyncInv, Settled
  <2>1. abandoned = 0 /\ UNCHANGED awaiting
    BY <1>1, <1>2 DEF TypeOK
  <2>2. \A c \in Calls : Waits(c)
    BY <1>2, <2>1 DEF SyncInv
  <2>3. CASE UNCHANGED <<token, challenge>>
    BY <1>1, <2>1, <2>2, <2>3 DEF Waits, Answered, Success
  <2>4. CASE awaiting = None
    <3>1. \A c \in Calls : ~calls[c].waiting /\ ~Answered(c)
      BY <1>2, <2>2, <2>4, NoneIsNoValue DEF Waits, RepliesInv, Answered
    <3> QED
      BY <1>1, <3>1 DEF Waits, Answered, Success
  <2> QED
    BY <1>1, <2>3, <2>4
<1> QED
  BY <1>3, <1>4, <1>5, <1>6 DEF ClientInv

(* The Worker answers: what it writes to the row of a session is the name   *)
(* of the call, in place of the challenge that the call presented.          *)
Opens(c) == calls[c].kind = "activate" /\ held' = [held EXCEPT ![c] = c]
Redeems(c) ==
  /\ calls[c].kind = "check"
  /\ held[calls[c].token] = calls[c].challenge /\ calls[c].challenge # None
  /\ held' = [held EXCEPT ![calls[c].token] = c]

LEMMA RespondKeeps ==
  ASSUME ClientInv, NEW c \in Calls, calls[c].request,
         NEW e \in {Success(c), Failure(calls[c].kind)}, Respond(c, e),
         \/ e = Failure(calls[c].kind) /\ UNCHANGED held
         \/ Opens(c) \/ Redeems(c),
         e = Success(c) => entitled
  PROVE  ClientInv'
<1> DEFINE q == IF calls[c].waiting
                THEN [calls[c] EXCEPT !.request = FALSE, !.reply = e] ELSE NotMade
           target(d) == IF calls[d].kind = "check" THEN token ELSE d
<1>1. TypeOK /\ NamesInv /\ RepliesInv /\ SyncInv
  BY DEF ClientInv
<1>2. /\ calls' = [calls EXCEPT ![c] = q]
      /\ UNCHANGED <<token, challenge, awaiting, last, abandoned, entitled>>
  BY <1>1 DEF Respond, client, application, TypeOK
<1>3. calls[c] \in Call /\ calls[c].kind \in Kinds /\ c \in Made
  BY <1>1 DEF TypeOK, Call, Made
<1>4. e \in Envelope
  BY <1>3 DEF Success, Failure, Envelope
<1>5. /\ q \in Call /\ ~q.request
      /\ calls[c].waiting =>
           /\ q.kind = calls[c].kind /\ q.waiting /\ q.reply = e
           /\ q.token = calls[c].token /\ q.challenge = calls[c].challenge
           /\ q.seen = calls[c].seen
      /\ ~calls[c].waiting => q.kind = None /\ ~q.waiting /\ q.reply = None
  BY <1>3, <1>4 DEF Call, NotMade
<1> HIDE DEF q
<1>6. /\ calls'[c] = q /\ \A d \in Calls \ {c} : calls'[d] = calls[d]
      /\ calls' \in [Calls -> Call]
      /\ \A d \in Calls : calls'[d].kind = None => ~calls'[d].waiting /\ ~calls'[d].request
  BY <1>1, <1>2, <1>3, <1>5, NoneIsNoValue, OneCall DEF TypeOK
<1>7. /\ Made' \subseteq Made
      /\ \A d \in Made' : /\ calls'[d].token = calls[d].token
                          /\ calls'[d].challenge = calls[d].challenge
  BY <1>3, <1>5, <1>6 DEF Made
<1>8. held' \in [Calls -> Calls \cup {None}]
      /\ \A s \in Calls : held'[s] # held[s] => held'[s] = c
  BY <1>1 DEF TypeOK, Opens, Redeems
<1>9. TypeOK'
  BY <1>1, <1>2, <1>6, <1>8 DEF TypeOK
<1>10. NamesInv'
  <2>1. ASSUME NEW d \in Made', calls'[d].request
        PROVE  \A s \in Calls : held'[s] # d
    <3>1. d # c /\ calls[d].request /\ d \in Made
      BY <1>5, <1>6, <1>7, <2>1 DEF Made
    <3> QED
      BY <1>1, <1>8, <3>1 DEF NamesInv
  <2> QED
    BY <1>1, <1>2, <1>7, <2>1 DEF NamesInv
<1>11. Answered(c)' <=> calls[c].waiting /\ e = Success(c)
  <2>1. Success(c)' = Success(c) \/ ~calls[c].waiting
    BY <1>5, <1>6 DEF Success
  <2> QED
    BY <1>4, <1>5, <1>6, <2>1, NoneIsNoValue DEF Answered
<1>12. ASSUME NEW d \in Calls, d # c
       PROVE  /\ calls'[d] = calls[d] /\ Answered(d)' <=> Answered(d)
              /\ Answered(d) => d \in Made
  <2>1. calls'[d] = calls[d] /\ (Answered(d)' <=> Answered(d))
    BY <1>6, <1>12 DEF Answered, Success
  <2>2. Answered(d) => d \in Made
    BY <1>1 DEF Answered, RepliesInv, TypeOK, Made
  <2> QED
    BY <2>1, <2>2
<1>13. RepliesInv'
  <2>1. ASSUME NEW d \in Calls, d # c
        PROVE  /\ calls'[d].reply # None =>
                    /\ calls'[d].waiting /\ ~calls'[d].request
                    /\ calls'[d].reply \in {Success(d)', Failure(calls[d].kind)'}
               /\ calls'[d].waiting /\ entitled' => calls'[d].seen
               /\ Answered(d)' => calls'[d].seen
    BY <1>1, <1>2, <1>12, <2>1 DEF RepliesInv, Success, Failure
  <2>2. /\ calls'[c].reply # None =>
             /\ calls'[c].waiting /\ ~calls'[c].request
             /\ calls'[c].reply \in {Success(c)', Failure(calls[c].kind)'}
        /\ calls'[c].waiting /\ entitled' => calls'[c].seen
        /\ Answered(c)' => calls'[c].seen
    BY <1>1, <1>2, <1>5, <1>6, <1>11 DEF RepliesInv, Success, Failure
  <2> QED
    BY <2>1, <2>2 DEF RepliesInv
<1>14. SyncInv'
  <2> SUFFICES ASSUME abandoned = 0
               PROVE  /\ \A d \in Calls : Waits(d)'
                      /\ Settled => Synced'
    BY <1>2 DEF SyncInv, Settled
  <2>1. (\A d \in Calls : Waits(d)) /\ (Settled => Synced)
    BY <1>1 DEF SyncInv
  <2>2. c # token /\ \A d \in Made : c # calls[d].token /\ d # calls[c].challenge
    BY <1>1, <1>3 DEF NamesInv
  <2>3. ASSUME NEW s \in Calls, held'[s] # held[s]
        PROVE  \/ s = c
               \/ /\ s = calls[c].token /\ held[s] = calls[c].challenge
                  /\ held[s] # None
    BY <1>1, <2>3 DEF Opens, Redeems, TypeOK
  <2>4. Waits(c)'
    <3>1. CASE ~calls[c].waiting
      BY <1>5, <1>6, <1>11, <3>1 DEF Waits
    <3>2. CASE calls[c].waiting
      <4>1. /\ c = awaiting
            /\ calls[c].kind = "check" => token = calls[c].token /\ token \in Calls
        BY <1>1, <2>1, <3>2 DEF Waits, TypeOK
      <4>2. e = Success(c) => held'[target(c)] = c
        <5> SUFFICES ASSUME e = Success(c) PROVE held'[target(c)] = c
          OBVIOUS
        <5>1. Success(c) # Failure(calls[c].kind)
          BY NoneIsNoValue DEF Success, Failure
        <5>2. Opens(c) \/ Redeems(c)
          BY <5>1
        <5> QED
          BY <1>1, <4>1, <5>2 DEF Opens, Redeems, TypeOK
      <4>3. /\ calls'[c].kind = calls[c].kind /\ calls'[c].token = calls[c].token
            /\ (IF calls'[c].kind = "check" THEN token' ELSE c) = target(c)
            /\ Answered(c)' => e = Success(c)
        BY <1>2, <1>5, <1>6, <1>11, <3>2
      <4>4. Answered(c)' =>
              held'[IF calls'[c].kind = "check" THEN token' ELSE c] = c
        BY <4>2, <4>3
      <4>5. c = awaiting' /\ (calls'[c].kind = "check" =>
                               token' = calls'[c].token /\ token' # None)
        BY <1>2, <4>1, <4>3, NoneIsNoValue
      <4> QED
        BY <4>4, <4>5 DEF Waits
    <3> QED
      BY <3>1, <3>2
  <2>5. ASSUME NEW d \in Calls, d # c PROVE Waits(d)'
    <3>1. Answered(d) => held'[target(d)] \in {d, None}
      <4> SUFFICES ASSUME Answered(d) PROVE held'[target(d)] \in {d, None}
        OBVIOUS
      <4>1. d \in Made /\ calls[d].waiting
        BY <1>1, <1>12, <2>5 DEF RepliesInv, Answered
      <4>2. held[target(d)] \in {d, None} /\ target(d) \in Calls
        BY <1>1, <2>1, <4>1 DEF Waits, TypeOK
      <4>3. target(d) # c
        BY <2>2, <2>5
      <4> QED
        BY <2>2, <2>3, <4>1, <4>2, <4>3
    <3> QED
      BY <1>2, <1>12, <2>1, <2>5, <3>1 DEF Waits
  <2>6. ASSUME Settled PROVE Synced'
    <3>1. Synced /\ token \in Calls
      BY <1>1, <2>1, <2>6 DEF Synced, TypeOK
    <3>2. held'[token] = held[token]
      BY <1>3, <2>2, <2>3, <3>1 DEF Synced
    <3> QED
      BY <1>2, <1>7, <3>1, <3>2 DEF Synced
  <2> QED
    BY <2>4, <2>5, <2>6
<1> QED
  BY <1>9, <1>10, <1>13, <1>14 DEF ClientInv

(* A response that a call takes for its own was sent for it.                *)
LEMMA OwnReply ==
  ASSUME ClientInv, NEW c \in Calls, NEW e \in Envelope, Arrives(c, e), Verified(c, e)
  PROVE  Answered(c) /\ calls[c].waiting /\ e.nonce = c /\ e.kind = calls[c].kind
<1>1. PICK d \in Calls : calls[d].kind = calls[c].kind /\ calls[d].reply = e
  BY DEF Arrives
<1>2. e # None /\ e.nonce = c
  BY NoneIsNoValue DEF Verified
<1>3. e \in {Success(d), Failure(calls[d].kind)}
  BY <1>1, <1>2 DEF ClientInv, RepliesInv
<1>4. d = c /\ e = Success(d)
  BY <1>2, <1>3, NoneIsNoValue DEF Success, Failure
<1> QED
  BY <1>1, <1>2, <1>4 DEF Answered, Success, Arrives

(* A call ends: only a success, and only its own, changes what the client   *)
(* holds.                                                                   *)
LEMMA EndsKeeps ==
  ASSUME ClientInv, NEW c \in Calls, calls[c].waiting,
         NEW outcome, NEW late \in BOOLEAN, Ends(c, outcome, late),
         late => calls[c].request,
         \/ outcome = "failed" /\ UNCHANGED client
         \/ /\ outcome = "activated" /\ Answered(c) /\ calls[c].kind = "activate"
            /\ token' = c /\ challenge' = c /\ ~late
         \/ /\ outcome = "valid" /\ Answered(c) /\ calls[c].kind = "check"
            /\ token' = token /\ challenge' = c /\ ~late
  PROVE  ClientInv'
<1> DEFINE q == IF late THEN [calls[c] EXCEPT !.waiting = FALSE, !.seen = FALSE]
                ELSE NotMade
<1>1. TypeOK /\ NamesInv /\ RepliesInv /\ SyncInv
  BY DEF ClientInv
<1>2. /\ calls' = [calls EXCEPT ![c] = q]
      /\ UNCHANGED <<abandoned, held, entitled>>
      /\ awaiting = c => awaiting' = None /\ last' = outcome
      /\ awaiting # c => UNCHANGED <<awaiting, last>>
      /\ {token', challenge'} \subseteq {token, challenge, c}
  BY <1>1 DEF Ends, client, worker, TypeOK
<1>3. calls[c] \in Call /\ calls[c].kind \in Kinds /\ c \in Made
  BY <1>1 DEF TypeOK, Call, Made
<1>4. /\ q \in Call /\ ~q.waiting
      /\ late => /\ q.kind = calls[c].kind /\ q.reply = calls[c].reply
                 /\ q.token = calls[c].token /\ q.challenge = calls[c].challenge
      /\ ~late => q.kind = None /\ ~q.request /\ q.reply = None
  BY <1>3 DEF Call, NotMade
<1>5. late => calls[c].reply = None
  BY <1>1 DEF RepliesInv
<1> HIDE DEF q
<1>6. /\ calls'[c] = q /\ \A d \in Calls \ {c} : calls'[d] = calls[d]
      /\ calls' \in [Calls -> Call]
      /\ \A d \in Calls : calls'[d].kind = None => ~calls'[d].waiting /\ ~calls'[d].request
      /\ late => Made' = Made \cup {c}
      /\ ~late => Made' = Made \ {c}
  BY <1>1, <1>2, <1>3, <1>4, NoneIsNoValue, OneCall DEF TypeOK
<1>7. /\ Made' \subseteq Made /\ (~late => c \notin Made')
      /\ \A d \in Made' : /\ calls'[d].token = calls[d].token
                          /\ calls'[d].challenge = calls[d].challenge
                          /\ calls'[d].request => calls[d].request
  <2>1. Made' \subseteq Made /\ (~late => c \notin Made')
    BY <1>3, <1>6
  <2>2. ASSUME NEW d \in Made'
        PROVE  /\ calls'[d].token = calls[d].token
               /\ calls'[d].challenge = calls[d].challenge
               /\ calls'[d].request => calls[d].request
    <3>1. d \in Calls
      BY <2>2 DEF Made
    <3> QED
      BY <1>4, <1>6, <2>1, <2>2, <3>1
  <2> QED
    BY <2>1, <2>2
<1>8. TypeOK'
  <2>1. last' \in {None, "activated", "valid", "failed"}
    BY <1>1, <1>2 DEF TypeOK
  <2>2. {token', challenge', awaiting'} \subseteq Calls \cup {None}
    BY <1>1, <1>2 DEF TypeOK
  <2> QED
    BY <1>1, <1>2, <1>6, <2>1, <2>2 DEF TypeOK
<1>9. NamesInv'
  <2>1. ASSUME NEW d \in Made' PROVE d \notin {token', challenge'}
    <3>1. d \in Made /\ d \notin {token, challenge}
      BY <1>1, <1>7, <2>1 DEF NamesInv
    <3>2. CASE late
      BY <3>1, <3>2 DEF client
    <3>3. CASE ~late
      BY <1>2, <1>7, <2>1, <3>1, <3>3
    <3> QED
      BY <3>2, <3>3
  <2> QED
    BY <1>1, <1>2, <1>7, <2>1 DEF NamesInv
<1>10. ASSUME NEW d \in Calls, d # c
       PROVE  calls'[d] = calls[d] /\ (Answered(d)' <=> Answered(d))
  BY <1>6, <1>10 DEF Answered, Success
<1>11. ~Answered(c)' /\ calls'[c].reply = None /\ ~calls'[c].waiting
  BY <1>4, <1>5, <1>6 DEF Answered
<1>12. RepliesInv'
  BY <1>1, <1>2, <1>10, <1>11 DEF RepliesInv, Success, Failure
<1>13. SyncInv'
  <2> SUFFICES ASSUME abandoned = 0
               PROVE  (\A d \in Calls : Waits(d)') /\ (Settled' => Synced')
    BY <1>2 DEF SyncInv
  <2>1. \A d \in Calls : Waits(d)
    BY <1>1 DEF SyncInv
  <2>2. c = awaiting
    BY <2>1 DEF Waits
  <2>3. ASSUME NEW d \in Calls PROVE ~calls'[d].waiting /\ ~Answered(d)'
    <3>1. CASE d = c
      BY <1>11, <3>1
    <3>2. CASE d # c
      <4>1. ~calls[d].waiting
        BY <2>1, <2>2, <3>2 DEF Waits
      <4>2. ~Answered(d)
        BY <1>1, <4>1 DEF RepliesInv, Answered
      <4> QED
        BY <1>10, <3>2, <4>1, <4>2
    <3> QED
      BY <3>1, <3>2
  <2>4. ASSUME Settled' PROVE Synced'
    <3>1. outcome \in {"activated", "valid"} /\ Answered(c) /\ ~late
      BY <1>2, <2>2, <2>4 DEF Settled
    <3>2. held[token'] \in {c, None} /\ token' # None /\ challenge' = c
      BY <2>1, <3>1, NoneIsNoValue DEF Waits
    <3>3. \A d \in Made' : calls'[d].challenge # c
      BY <1>1, <1>3, <1>7 DEF NamesInv
    <3> QED
      BY <1>2, <3>2, <3>3 DEF Synced
  <2> QED
    BY <2>3, <2>4 DEF Waits
<1> QED
  BY <1>8, <1>9, <1>12, <1>13 DEF ClientInv

LEMMA EndSessionKeeps ==
  ASSUME ClientInv, NEW s \in Calls, EndSession(s) PROVE ClientInv'
<1>1. TypeOK /\ NamesInv /\ RepliesInv /\ SyncInv
  BY DEF ClientInv
<1>2. /\ UNCHANGED <<token, challenge, calls, awaiting, last, abandoned, entitled>>
      /\ held' \in [Calls -> Calls \cup {None}]
      /\ \A x \in Calls : held'[x] \in {held[x], None}
  BY <1>1 DEF EndSession, client, application, TypeOK
<1>3. TypeOK'
  BY <1>1, <1>2 DEF TypeOK
<1>4. NamesInv'
  BY <1>1, <1>2, NoneIsNoValue DEF NamesInv, Made
<1>5. RepliesInv'
  BY <1>1, <1>2 DEF RepliesInv, Answered, Success, Failure
<1>6. SyncInv'
  <2> SUFFICES ASSUME abandoned = 0
               PROVE  (\A c \in Calls : Waits(c)') /\ (Settled => Synced')
    BY <1>2 DEF SyncInv, Settled
  <2>1. ASSUME NEW c \in Calls PROVE Waits(c)'
    <3>1. Waits(c)
      BY <1>1 DEF SyncInv
    <3>2. Answered(c) /\ calls[c].kind = "check" => token \in Calls
      BY <1>1, <3>1 DEF Waits, TypeOK, RepliesInv, Answered
    <3> QED
      BY <1>2, <3>1, <3>2 DEF Waits, Answered, Success
  <2>2. ASSUME Settled PROVE Synced'
    <3>1. Synced /\ token \in Calls
      BY <1>1, <2>2 DEF SyncInv, Synced, TypeOK
    <3> QED
      BY <1>2, <3>1 DEF Synced, Made
  <2> QED
    BY <2>1, <2>2
<1> QED
  BY <1>3, <1>4, <1>5, <1>6 DEF ClientInv

LEMMA OwnerKeeps == ASSUME ClientInv, OwnerDecides PROVE ClientInv'
<1> DEFINE q(c) == IF calls[c].waiting /\ entitled'
                   THEN [calls[c] EXCEPT !.seen = TRUE] ELSE calls[c]
<1>1. TypeOK /\ NamesInv /\ RepliesInv /\ SyncInv
  BY DEF ClientInv
<1>2. /\ UNCHANGED <<token, challenge, awaiting, last, abandoned, held>>
      /\ entitled' \in BOOLEAN
      /\ calls' = [c \in Calls |-> q(c)]
  BY <1>1 DEF OwnerDecides, client, application, TypeOK
<1>3. ASSUME NEW c \in Calls
      PROVE  /\ q(c) \in Call /\ q(c).kind = calls[c].kind
             /\ q(c).waiting = calls[c].waiting /\ q(c).request = calls[c].request
             /\ q(c).reply = calls[c].reply /\ q(c).token = calls[c].token
             /\ q(c).challenge = calls[c].challenge
             /\ calls[c].seen \/ (calls[c].waiting /\ entitled') => q(c).seen
  <2>1. calls[c] \in Call
    BY <1>1 DEF TypeOK
  <2> QED
    BY <2>1 DEF Call
<1>4. \A c \in Calls : calls'[c] = q(c)
  BY <1>2
<1> HIDE DEF q
<1>5. calls' \in [Calls -> Call]
  BY <1>2, <1>3
<1>6. ASSUME NEW c \in Calls
      PROVE  /\ calls'[c].kind = calls[c].kind
             /\ calls'[c].waiting = calls[c].waiting
             /\ calls'[c].request = calls[c].request
             /\ calls'[c].reply = calls[c].reply
             /\ calls'[c].token = calls[c].token
             /\ calls'[c].challenge = calls[c].challenge
             /\ Answered(c)' <=> Answered(c)
             /\ calls[c].seen \/ (calls[c].waiting /\ entitled') => calls'[c].seen
  BY <1>3, <1>4 DEF Answered, Success
<1>7. TypeOK'
  BY <1>1, <1>2, <1>5, <1>6 DEF TypeOK
<1>8. Made' = Made /\ \A c \in Made : c \in Calls
  BY <1>6 DEF Made
<1>9. NamesInv'
  BY <1>1, <1>2, <1>6, <1>8 DEF NamesInv
<1>10. RepliesInv'
  BY <1>1, <1>6 DEF RepliesInv, Success, Failure
<1>11. SyncInv'
  <2>1. \A c \in Calls : Waits(c) => Waits(c)'
    BY <1>2, <1>6 DEF Waits
  <2>2. Synced => Synced'
    BY <1>2, <1>6, <1>8 DEF Synced
  <2> QED
    BY <1>1, <1>2, <2>1, <2>2 DEF SyncInv, Settled
<1> QED
  BY <1>7, <1>9, <1>10, <1>11 DEF ClientInv

-----------------------------------------------------------------------------
LEMMA ServeKeeps ==
  ASSUME ClientInv, NEW c \in Calls,
         ServeInVain(c) \/ \E e \in Envelope : ServeActivate(c, e) \/ ServeCheck(c, e)
  PROVE  ClientInv'
<1>1. CASE ServeInVain(c)
  BY <1>1, RespondKeeps, NoneIsNoValue DEF ServeInVain, Success, Failure
<1>2. ASSUME NEW e \in Envelope, ServeActivate(c, e) PROVE ClientInv'
  BY <1>2, RespondKeeps DEF ServeActivate, Serve, Opens
<1>3. ASSUME NEW e \in Envelope, ServeCheck(c, e) PROVE ClientInv'
  <2>1. /\ calls[c].request /\ Respond(c, e) /\ Redeems(c)
        /\ e \in {Success(c), Failure(calls[c].kind)}
        /\ e = Success(c) => entitled
    BY <1>3, NoneIsNoValue DEF ServeCheck, Serve, Holds, Redeems, Success, Failure
  <2> QED
    BY <2>1, RespondKeeps
<1> QED
  BY <1>1, <1>2, <1>3

LEMMA TakeKeeps ==
  ASSUME ClientInv, NEW c \in Calls,
         \/ Fail(c) \/ FailEarly(c)
         \/ \E e \in Envelope :
              TakeActivation(c, e) \/ TakeCheck(c, e) \/ TakeRefusal(c, e)
  PROVE  ClientInv'
<1>1. CASE Fail(c)
  BY <1>1, EndsKeeps DEF Fail
<1>2. CASE FailEarly(c)
  BY <1>2, EndsKeeps DEF FailEarly
<1>3. ASSUME NEW e \in Envelope, TakeActivation(c, e) PROVE ClientInv'
  <2>1. /\ Answered(c) /\ calls[c].waiting /\ calls[c].kind = "activate"
        /\ token' = c /\ challenge' = c /\ Ends(c, "activated", FALSE)
    BY <1>3, OwnReply DEF TakeActivation, StoreSession
  <2> QED
    BY <2>1, EndsKeeps
<1>4. ASSUME NEW e \in Envelope, TakeCheck(c, e) PROVE ClientInv'
  <2>1. /\ Answered(c) /\ calls[c].waiting /\ calls[c].kind = "check"
        /\ token' = token /\ challenge' = c /\ Ends(c, "valid", FALSE)
    BY <1>4, OwnReply DEF TakeCheck, StoreChallenge
  <2> QED
    BY <2>1, EndsKeeps
<1>5. ASSUME NEW e \in Envelope, TakeRefusal(c, e) PROVE ClientInv'
  <2>1. calls[c].waiting /\ Ends(c, "failed", FALSE) /\ UNCHANGED client
    BY <1>5 DEF TakeRefusal, Arrives
  <2> QED
    BY <2>1, EndsKeeps
<1> QED
  BY <1>1, <1>2, <1>3, <1>4, <1>5

LEMMA NextClient == ASSUME ClientInv, [Next]_vars PROVE ClientInv'
<1>1. ASSUME NEW c \in Calls, Activate(c) PROVE ClientInv'
  BY <1>1, PostKeeps DEF Activate, Kinds
<1>2. ASSUME NEW c \in Calls, CheckSession(c) PROVE ClientInv'
  BY <1>2, PostKeeps DEF CheckSession, Kinds
<1>3. CASE UNCHANGED vars
  <2>1. UNCHANGED <<TypeOK, NamesInv, RepliesInv, SyncInv>>
    BY <1>3 DEF vars, TypeOK, NamesInv, RepliesInv, SyncInv, Made, Waits, Answered,
                Settled, Synced, Success, Failure
  <2> QED
    BY <2>1 DEF ClientInv
<1> QED
  BY <1>1, <1>2, <1>3, ServeKeeps, TakeKeeps, EndSessionKeeps, ApplicationKeeps,
     OwnerKeeps DEF Next

(* The invariant of the client: whatever is lost, late or abandoned.        *)
THEOREM ClientSound == Spec => []ClientInv
BY InitClient, NextClient, PTL DEF Spec

(* The client's fields, its calls and the rows of its sessions are always   *)
(* what the code gives them.                                                *)
THEOREM ClientTypeCorrect == Spec => []TypeOK
<1>1. ClientInv => TypeOK
  BY DEF ClientInv
<1> QED
  BY <1>1, ClientSound, PTL

(* After a success the client of an application that awaits every call      *)
(* holds the challenge the row holds, for any number of failed calls whose  *)
(* requests are served late.                                                *)
THEOREM StaysInSync == Spec => []InSync
<1>1. ClientInv => InSync
  BY DEF ClientInv, SyncInv, Settled, Synced, InSync
<1> QED
  BY <1>1, ClientSound, PTL

(* A success that reaches the application was signed for this call while    *)
(* the license entitled the device, for any number of overlapping calls     *)
(* (verifyEnvelope, the dispatch).                                          *)
THEOREM SuccessIsFresh == Spec => VerdictIsFresh
<1> DEFINE Fresh1 ==
      \A c \in Calls :
        (awaiting = c /\ last' \in {"activated", "valid"} /\ awaiting' = None)
          => calls[c].seen
<1>1. ASSUME ClientInv, [Next]_vars PROVE Fresh1
  <2> SUFFICES ASSUME NEW c \in Calls, awaiting = c,
                      last' \in {"activated", "valid"}, awaiting' = None
               PROVE  calls[c].seen
    OBVIOUS
  <2>1. awaiting # None /\ last' \notin {None, "failed"}
    BY NoneIsNoValue
  <2>2. PICK d \in Calls, e \in Envelope : TakeActivation(d, e) \/ TakeCheck(d, e)
    BY <1>1, <2>1
       DEF Next, vars, Activate, CheckSession, Post, ServeActivate, ServeCheck,
           ServeInVain, Respond, Fail, FailEarly, TakeRefusal, Ends, EndSession,
           CheckWithoutSession, ClearSession, Abandon, OwnerDecides, application
  <2>3. Answered(d)
    BY <1>1, <2>2, OwnReply DEF TakeActivation, TakeCheck
  <2>4. awaiting = d
    BY <2>1, <2>2 DEF TakeActivation, TakeCheck, Ends
  <2> QED
    BY <1>1, <2>3, <2>4 DEF ClientInv, RepliesInv
<1> QED
  BY <1>1, ClientSound, PTL DEF Spec, VerdictIsFresh
=============================================================================
