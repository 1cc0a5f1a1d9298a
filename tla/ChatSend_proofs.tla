---------------------------- MODULE ChatSend_proofs ----------------------------
(***************************************************************************)
(* Proofs about ChatSend, for any number of accounts and sockets, any      *)
(* burst and any number of handlers that die: first bans, counters and     *)
(* duplicates, then the two limits by counting.                            *)
(***************************************************************************)
EXTENDS ChatSend, TLAPS, FiniteSetTheorems

(* What a reason says, as long as it stands *)
Known ==
  \A c \in Conns :
    /\ "ban" \in req[c].barred => AccountOf[c] \in restricted
    /\ "follow" \in req[c].barred =>
         req[c].followersOnly /\ AccountOf[c] \notin following \cup moderates
    /\ req[c].pc = "follow" => "ban" \notin req[c].barred

(* What comes to the duplicate check is a text, ... *)
Cleanly == \A c \in Conns : req[c].pc \in {"dup", "insert"} => req[c].text \in Texts

(* ... and what is stored holds its key or did. *)
Keyed ==
  /\ posted \subseteq recent
  /\ \A c \in Conns : req[c].pc = "insert" => DupKey(c) \in recent

Inv == TypeOK /\ Known /\ BarredStaysOut /\ Cleanly /\ Keyed /\ DuplicateDropped /\ CounterHasLife

-----------------------------------------------------------------------------
LEMMA Owners == \A c \in Conns : AccountOf[c] \in Accounts
  BY ConnAssumption

(* A request that goes on keeps everything but its place. *)
LEMMA Went ==
  ASSUME TypeOK, NEW c \in Conns, NEW pc, Goto(c, pc)
  PROVE  /\ \A d \in Conns : d # c => req'[d] = req[d]
         /\ req'[c].pc = pc
         /\ req'[c].text = req[c].text /\ req'[c].barred = req[c].barred
         /\ req'[c].slow = req[c].slow /\ req'[c].followersOnly = req[c].followersOnly
  BY DEF TypeOK, Goto

LEMMA Ended ==
  ASSUME TypeOK, NEW c \in Conns, Finish(c)
  PROVE  /\ \A d \in Conns : d # c => req'[d] = req[d]
         /\ req'[c] = Idle
  BY DEF TypeOK, Finish

(* Where a check may send a request *)
Places == {"idle", "ban", "follow", "slow", "rate", "expire", "dup", "insert", "start"}

Requests == [pc : Places, text : Texts \cup {BadText}, slow : BOOLEAN, followersOnly : BOOLEAN,
             barred : SUBSET {"ban", "follow"}]

LEMMA Typed ==
  ASSUME TypeOK, NEW c \in Conns, NEW pc \in Places, Goto(c, pc) \/ Finish(c)
  PROVE  req' \in [Conns -> Requests]
  <1>1. req \in [Conns -> Requests]
    BY DEF TypeOK, Requests, Places
  <1>2. CASE Goto(c, pc)
    BY <1>1, <1>2 DEF Goto, Requests
  <1>3. CASE Finish(c)
    <2>1. Idle \in Requests
      BY DEF Idle, Requests, Places
    <2> QED
      BY <1>1, <1>3, <2>1 DEF Finish
  <1> QED
    BY <1>2, <1>3

LEMMA InvInit == Init => Inv
  <1> SUFFICES ASSUME Init PROVE Inv
    OBVIOUS
  <1>1. /\ \A c \in Conns : req[c] = Idle
        /\ \A a \in Accounts : rate[a] = Fresh
    BY DEF Init
  <1>2. TypeOK
    <2>1. Idle \in Requests
      BY DEF Idle, Requests, Places
    <2>2. req \in [Conns -> Requests]
      BY <2>1 DEF Init
    <2>3. Fresh \in [n : 0..(Burst + 1), expires : BOOLEAN]
      BY BoundAssumption DEF Fresh
    <2>4. rate \in [Accounts -> [n : 0..(Burst + 1), expires : BOOLEAN]]
      BY <2>3 DEF Init
    <2> QED
      BY <2>2, <2>4, BoundAssumption DEF Init, TypeOK, Requests, Places
  <1>3. Known /\ BarredStaysOut /\ Cleanly /\ DuplicateDropped
    BY <1>1 DEF Known, BarredStaysOut, Cleanly, DuplicateDropped, Idle, At
  <1>4. Keyed
    BY <1>1 DEF Keyed, Init, Idle
  <1>5. CounterHasLife
    BY <1>1 DEF CounterHasLife, Fresh
  <1> QED
    BY <1>2, <1>3, <1>4, <1>5 DEF Inv

-----------------------------------------------------------------------------
LEMMA LoadStep ==
  ASSUME Inv, NEW c \in Conns, Load(c)
  PROVE  Inv'
  <1> USE DEF Inv, Load, history, channel, At
  <1>1. PICK t \in Texts \cup {BadText}, s \in BOOLEAN, f \in BOOLEAN :
          req' = [req EXCEPT ![c] = [pc |-> "ban", text |-> t, slow |-> s,
                                     followersOnly |-> f, barred |-> Reasons(c, f)]]
    OBVIOUS
  <1>2. /\ \A d \in Conns : d # c => req'[d] = req[d]
        /\ req'[c].pc = "ban" /\ req'[c].barred = Reasons(c, f) /\ req'[c].followersOnly = f
    BY <1>1 DEF TypeOK
  <1>3. /\ Reasons(c, f) \subseteq {"ban", "follow"}
        /\ "ban" \in Reasons(c, f) => AccountOf[c] \in restricted
        /\ "follow" \in Reasons(c, f) => f /\ AccountOf[c] \notin following \cup moderates
    BY DEF Reasons
  <1>4. TypeOK'
    BY <1>1, <1>3 DEF TypeOK
  <1>5. Known'
    BY <1>2, <1>3 DEF Known
  <1>6. BarredStaysOut'
    BY <1>2 DEF BarredStaysOut
  <1>7. Cleanly' /\ Keyed'
    BY <1>2 DEF Cleanly, Keyed, DupKey
  <1>8. DuplicateDropped'
    BY <1>2 DEF DuplicateDropped, Sockets
  <1>9. CounterHasLife'
    BY <1>2 DEF CounterHasLife, Sockets
  <1> QED
    BY <1>4, <1>5, <1>6, <1>7, <1>8, <1>9

(* The checks that only read: what they conclude when they let c through. *)
LEMMA ReadCheckStep ==
  ASSUME Inv, NEW c \in Conns,
         req[c].pc \in {"ban", "follow", "slow"},
         UNCHANGED <<channel, slow, rate, recent, history>>,
         Finish(c) \/ \E pc \in {"follow", "slow", "rate", "dup"} :
                        /\ Goto(c, pc)
                        /\ "ban" \notin req[c].barred
                        /\ pc = "follow" \/ req[c].barred = {}
                        /\ pc = "dup" => req[c].text \in Texts
  PROVE  Inv'
  <1> USE DEF Inv, history, channel
  <1>1. CASE Finish(c)
    <2>1. /\ \A d \in Conns : d # c => req'[d] = req[d]
          /\ req'[c] = Idle
      BY <1>1, Ended
    <2>2. TypeOK'
      BY <1>1, Typed, "idle" \in Places DEF TypeOK, Requests, Places
    <2> QED
      BY <2>1, <2>2 DEF Known, BarredStaysOut, Cleanly, Keyed, DuplicateDropped, CounterHasLife,
                        DupKey, Sockets, At, Idle
  <1>2. ASSUME NEW pc \in {"follow", "slow", "rate", "dup"}, Goto(c, pc),
               "ban" \notin req[c].barred, pc = "follow" \/ req[c].barred = {},
               pc = "dup" => req[c].text \in Texts
        PROVE  Inv'
    <2>1. /\ \A d \in Conns : d # c => req'[d] = req[d]
          /\ req'[c].pc = pc /\ req'[c].text = req[c].text /\ req'[c].barred = req[c].barred
          /\ req'[c].followersOnly = req[c].followersOnly
      BY <1>2, Went
    <2>2. TypeOK'
      BY <1>2, Typed, pc \in Places DEF TypeOK, Requests, Places
    <2>3. Known'
      BY <1>2, <2>1 DEF Known
    <2>4. BarredStaysOut'
      BY <1>2, <2>1 DEF BarredStaysOut
    <2>5. Cleanly' /\ Keyed'
      BY <1>2, <2>1 DEF Cleanly, Keyed, DupKey
    <2>6. DuplicateDropped'
      BY <1>2, <2>1 DEF DuplicateDropped, Sockets, At
    <2>7. CounterHasLife'
      BY <1>2, <2>1 DEF CounterHasLife, Sockets, At
    <2> QED
      BY <2>2, <2>3, <2>4, <2>5, <2>6, <2>7
  <1> QED
    BY <1>1, <1>2

(* Where a check leads *)
LEMMA Paths ==
  ASSUME TypeOK, NEW c \in Conns
  PROVE  /\ Cleaned(c) \in {"reject", "dup"}
         /\ Cleaned(c) = "dup" => req[c].text \in Texts
         /\ PastSlow(c) \in {"rate", Cleaned(c)}
         /\ PastFollow(c) \in {"slow", "rate", Cleaned(c)}
         /\ PastBan(c) \in {"follow", "slow", "rate", Cleaned(c)}
         /\ req[c].followersOnly /\ ~Privileged(c) => PastBan(c) = "follow"
  <1>1. req[c].text \in Texts \cup {BadText}
    BY DEF TypeOK
  <1>2. /\ Cleaned(c) \in {"reject", "dup"}
        /\ Cleaned(c) = "dup" => req[c].text \in Texts
    BY <1>1 DEF Cleaned
  <1> QED
    BY <1>2 DEF PastSlow, PastFollow, PastBan

LEMMA Reasonable == TypeOK => \A c \in Conns : req[c].barred \subseteq {"ban", "follow"}
  BY DEF TypeOK

LEMMA CheckBanStep ==
  ASSUME Inv, NEW c \in Conns, CheckBan(c)
  PROVE  Inv'
  <1>1. /\ req[c].pc \in {"ban", "follow", "slow"}
        /\ UNCHANGED <<channel, slow, rate, recent, history>>
    BY DEF CheckBan, At
  <1>2. CASE Finish(c)
    BY <1>1, <1>2, ReadCheckStep
  <1>3. CASE ~Finish(c)
    <2>1. /\ AccountOf[c] \notin restricted
          /\ PastBan(c) # "reject" /\ Goto(c, PastBan(c))
      BY <1>3 DEF CheckBan, Proceed
    <2>2. PastBan(c) \in {"follow", "slow", "rate", "dup"}
      BY <2>1, Paths DEF Inv
    <2>3. "ban" \notin req[c].barred
      BY <2>1 DEF Inv, Known
    <2>4. PastBan(c) = "follow" \/ req[c].barred = {}
      BY <2>3, Paths, Reasonable DEF Inv, Known, Privileged
    <2>5. PastBan(c) = "dup" => req[c].text \in Texts
      BY Paths DEF Inv
    <2> QED
      BY <1>1, <2>1, <2>2, <2>3, <2>4, <2>5, ReadCheckStep
  <1> QED
    BY <1>2, <1>3

LEMMA CheckFollowStep ==
  ASSUME Inv, NEW c \in Conns, CheckFollow(c)
  PROVE  Inv'
  <1>1. /\ req[c].pc \in {"ban", "follow", "slow"}
        /\ UNCHANGED <<channel, slow, rate, recent, history>>
    BY DEF CheckFollow, At
  <1>2. CASE Finish(c)
    BY <1>1, <1>2, ReadCheckStep
  <1>3. CASE ~Finish(c)
    <2>1. /\ AccountOf[c] \in following
          /\ PastFollow(c) # "reject" /\ Goto(c, PastFollow(c))
      BY <1>3 DEF CheckFollow, Proceed
    <2>2. PastFollow(c) \in {"follow", "slow", "rate", "dup"}
      BY <2>1, Paths DEF Inv
    <2>3. req[c].barred = {}
      BY <2>1, Reasonable DEF Inv, Known, CheckFollow, At
    <2>4. PastFollow(c) = "dup" => req[c].text \in Texts
      BY Paths DEF Inv
    <2> QED
      BY <1>1, <2>1, <2>2, <2>3, <2>4, ReadCheckStep
  <1> QED
    BY <1>2, <1>3

LEMMA CheckSlowStep ==
  ASSUME Inv, NEW c \in Conns, CheckSlow(c)
  PROVE  Inv'
  <1>1. /\ req[c].pc \in {"ban", "follow", "slow"}
        /\ UNCHANGED <<channel, slow, rate, recent, history>>
    BY DEF CheckSlow, At
  <1>2. CASE Finish(c)
    BY <1>1, <1>2, ReadCheckStep
  <1>3. CASE ~Finish(c)
    <2>1. PastSlow(c) # "reject" /\ Goto(c, PastSlow(c))
      BY <1>3 DEF CheckSlow, Proceed
    <2>2. PastSlow(c) \in {"follow", "slow", "rate", "dup"}
      BY <2>1, Paths DEF Inv
    <2>3. req[c].barred = {}
      BY DEF Inv, BarredStaysOut, CheckSlow, At
    <2>4. PastSlow(c) = "dup" => req[c].text \in Texts
      BY Paths DEF Inv
    <2> QED
      BY <1>1, <2>1, <2>2, <2>3, <2>4, ReadCheckStep
  <1> QED
    BY <1>2, <1>3

-----------------------------------------------------------------------------
LEMMA TakeTokenStep ==
  ASSUME Inv, NEW c \in Conns, TakeToken(c)
  PROVE  Inv'
  <1> DEFINE a == AccountOf[c]
             n == IF rate[a].n > Burst THEN rate[a].n ELSE rate[a].n + 1
  <1>1. /\ req[c].pc = "rate" /\ rate' = [rate EXCEPT ![a].n = n]
        /\ UNCHANGED <<channel, slow, recent, history>>
    BY DEF TakeToken, At
  <1>2. /\ a \in Accounts
        /\ \A b \in Accounts : rate[b].n \in 0..(Burst + 1) /\ rate[b].expires \in BOOLEAN
        /\ n \in 1..(Burst + 1)
    BY Owners, BoundAssumption DEF Inv, TypeOK
  <1>3. /\ rate' \in [Accounts -> [n : 0..(Burst + 1), expires : BOOLEAN]]
        /\ \A b \in Accounts : b # a => rate'[b] = rate[b]
        /\ rate'[a].expires = rate[a].expires
    BY <1>1, <1>2 DEF Inv, TypeOK
  <1>4. \/ n = 1 /\ Goto(c, "expire")
        \/ n > 1 /\ Goto(c, "dup") /\ req[c].text \in Texts
        \/ n > 1 /\ Finish(c)
    <2>1. Cleaned(c) \in {"reject", "dup"} /\ (Cleaned(c) = "dup" => req[c].text \in Texts)
      BY Paths DEF Inv
    <2>2. CASE n = 1
      BY <2>2 DEF TakeToken
    <2>3. CASE n > 1 /\ Within(n)
      BY <2>3, <2>1, <1>2 DEF TakeToken, Proceed
    <2>4. CASE n > 1 /\ ~Within(n)
      BY <2>4, <1>2 DEF TakeToken
    <2> QED
      BY <1>2, <2>2, <2>3, <2>4
  <1>5. PICK pc \in {"expire", "dup", "idle"} :
          /\ \A d \in Conns : d # c => req'[d] = req[d]
          /\ req'[c].pc = pc
          /\ pc # "idle" => req'[c].text = req[c].text /\ req'[c].barred = req[c].barred
          /\ pc = "idle" => req'[c] = Idle
          /\ pc = "dup" => req[c].text \in Texts
          /\ n = 1 => pc = "expire"
          /\ Goto(c, pc) \/ Finish(c)
    <2>1. CASE Goto(c, "expire")
      BY <2>1, Went DEF Inv
    <2>2. CASE n > 1 /\ Goto(c, "dup") /\ req[c].text \in Texts
      BY <2>2, Went DEF Inv
    <2>3. CASE n > 1 /\ Finish(c)
      <3>1. /\ \A d \in Conns : d # c => req'[d] = req[d]
            /\ req'[c] = Idle
        BY <2>3, Ended DEF Inv
      <3>2. req'[c].pc = "idle"
        BY <3>1 DEF Idle
      <3> QED
        BY <2>3, <3>1, <3>2
    <2> QED
      BY <1>4, <2>1, <2>2, <2>3
  <1> HIDE DEF a, n
  <1>6. TypeOK'
    BY <1>1, <1>3, <1>5, Typed, pc \in Places
    DEF Inv, TypeOK, channel, history, Requests, Places
  <1>7. Known'
    BY <1>1, <1>5 DEF Inv, Known, BarredStaysOut, channel, Idle
  <1>8. BarredStaysOut'
    BY <1>1, <1>5 DEF Inv, BarredStaysOut, Idle
  <1>9. Cleanly' /\ Keyed'
    BY <1>1, <1>5 DEF Inv, Cleanly, Keyed, DupKey, history
  <1>10. DuplicateDropped'
    BY <1>1, <1>5 DEF Inv, DuplicateDropped, Sockets, At, history
  <1>11. CounterHasLife'
    <2> SUFFICES ASSUME NEW b \in Accounts, rate'[b].n > 0, ~rate'[b].expires, b \notin orphaned'
                 PROVE  \E d \in Sockets(b) : req'[d].pc = "expire"
      BY DEF CounterHasLife, Sockets, At
    <2>1. b \notin orphaned
      BY <1>1 DEF history
    <2>2. CASE b = a /\ n = 1
      BY <2>2, <1>5 DEF Sockets, a
    <2>3. CASE rate[b].n > 0
      <3>1. ~rate[b].expires
        BY <1>3
      <3>2. PICK d \in Sockets(b) : req[d].pc = "expire"
        BY <2>1, <2>3, <3>1 DEF Inv, CounterHasLife, At
      <3> QED
        BY <3>2, <1>1, <1>5 DEF Sockets
    <2>4. CASE b = a /\ n # 1
      BY <2>3, <2>4, <1>2 DEF n
    <2>5. CASE b # a
      BY <2>3, <2>5, <1>3
    <2> QED
      BY <2>2, <2>4, <2>5
  <1> QED
    BY <1>6, <1>7, <1>8, <1>9, <1>10, <1>11 DEF Inv

LEMMA ExpireStep ==
  ASSUME Inv, NEW c \in Conns, Expire(c)
  PROVE  Inv'
  <1>1. /\ req[c].pc = "expire"
        /\ rate' = [rate EXCEPT ![AccountOf[c]].expires = TRUE]
        /\ UNCHANGED <<channel, slow, recent, history>>
    BY DEF Expire, At
  <1>2. /\ rate' \in [Accounts -> [n : 0..(Burst + 1), expires : BOOLEAN]]
        /\ \A b \in Accounts : b # AccountOf[c] => rate'[b] = rate[b]
        /\ rate'[AccountOf[c]].expires
    <2>1. AccountOf[c] \in Accounts /\ rate \in [Accounts -> [n : 0..(Burst + 1), expires : BOOLEAN]]
      BY Owners DEF Inv, TypeOK
    <2>2. PICK a \in Accounts : a = AccountOf[c]
      BY <2>1
    <2>3. /\ rate' = [rate EXCEPT ![a] = [rate[a] EXCEPT !.expires = TRUE]]
          /\ rate[a] \in [n : 0..(Burst + 1), expires : BOOLEAN]
      BY <1>1, <2>1, <2>2
    <2>4. PICK r : r = [rate[a] EXCEPT !.expires = TRUE]
      OBVIOUS
    <2>5. r \in [n : 0..(Burst + 1), expires : BOOLEAN] /\ r.expires
      BY <2>3, <2>4
    <2> QED
      BY <2>1, <2>2, <2>3, <2>4, <2>5
  <1>3. PICK pc \in {"dup", "idle"} :
          /\ \A d \in Conns : d # c => req'[d] = req[d]
          /\ req'[c].pc = pc
          /\ pc # "idle" => req'[c].text = req[c].text /\ req'[c].barred = req[c].barred
          /\ pc = "idle" => req'[c] = Idle
          /\ pc = "dup" => req[c].text \in Texts
          /\ Goto(c, pc) \/ Finish(c)
    <2>1. \/ Goto(c, "dup") /\ req[c].text \in Texts
          \/ Finish(c)
      BY Paths DEF Inv, Expire, Proceed
    <2>2. CASE Goto(c, "dup") /\ req[c].text \in Texts
      BY <2>2, Went DEF Inv
    <2>3. CASE Finish(c)
      <3>1. /\ \A d \in Conns : d # c => req'[d] = req[d]
            /\ req'[c] = Idle
        BY <2>3, Ended DEF Inv
      <3>2. req'[c].pc = "idle"
        BY <3>1 DEF Idle
      <3> QED
        BY <2>3, <3>1, <3>2
    <2> QED
      BY <2>1, <2>2, <2>3
  <1>4. TypeOK'
    BY <1>1, <1>2, <1>3, Typed, pc \in Places
    DEF Inv, TypeOK, channel, history, Requests, Places
  <1>5. Known'
    BY <1>1, <1>3 DEF Inv, Known, channel, Idle, BarredStaysOut
  <1>6. BarredStaysOut'
    BY <1>1, <1>3 DEF Inv, BarredStaysOut, Idle
  <1>7. Cleanly' /\ Keyed'
    BY <1>1, <1>3 DEF Inv, Cleanly, Keyed, DupKey, history
  <1>8. DuplicateDropped'
    BY SMTT(30), <1>1, <1>3 DEF Inv, DuplicateDropped, Sockets, At, history
  <1>9. CounterHasLife'
    BY <1>1, <1>2, <1>3 DEF Inv, CounterHasLife, Sockets, At, history
  <1> QED
    BY <1>4, <1>5, <1>6, <1>7, <1>8, <1>9 DEF Inv

LEMMA CheckDuplicateStep ==
  ASSUME Inv, NEW c \in Conns, CheckDuplicate(c)
  PROVE  Inv'
  <1>1. /\ req[c].pc = "dup"
        /\ recent' = recent \cup {DupKey(c)}
        /\ UNCHANGED <<channel, slow, rate, history>>
    BY DEF CheckDuplicate, At
  <1>2. DupKey(c) \in Accounts \X Texts
    BY <1>1, Owners DEF Inv, Cleanly, DupKey
  <1>3. CASE Finish(c)
    <2>1. /\ \A d \in Conns : d # c => req'[d] = req[d]
          /\ req'[c] = Idle
      BY <1>3, Ended DEF Inv
    <2>2. TypeOK'
      BY <1>1, <1>2, <1>3, Typed, "idle" \in Places
      DEF Inv, TypeOK, channel, history, Requests, Places
    <2>3. Known' /\ BarredStaysOut' /\ Cleanly'
      BY <1>1, <2>1 DEF Inv, Known, BarredStaysOut, Cleanly, channel, Idle
    <2>4. Keyed' /\ DuplicateDropped'
      BY <1>1, <2>1 DEF Inv, Keyed, DuplicateDropped, DupKey, Sockets, At, history, Idle
    <2>5. CounterHasLife'
      BY <1>1, <2>1 DEF Inv, CounterHasLife, Sockets, At, history
    <2> QED
      BY <2>2, <2>3, <2>4, <2>5 DEF Inv
  <1>4. CASE ~Finish(c)
    <2>1. Goto(c, "insert") /\ DupKey(c) \notin recent
      BY <1>4 DEF CheckDuplicate
    <2>2. /\ \A d \in Conns : d # c => req'[d] = req[d]
          /\ req'[c].pc = "insert"
          /\ req'[c].text = req[c].text /\ req'[c].barred = req[c].barred
          /\ req'[c].followersOnly = req[c].followersOnly
      BY <2>1, Went DEF Inv
    <2>3. TypeOK'
      BY <1>1, <1>2, <2>1, Typed, "insert" \in Places
      DEF Inv, TypeOK, channel, history, Requests, Places
    <2>4. Known' /\ BarredStaysOut' /\ Cleanly'
      BY <1>1, <2>2 DEF Inv, Known, BarredStaysOut, Cleanly, channel
    <2>5. Keyed'
      BY <1>1, <2>2 DEF Inv, Keyed, DupKey, history
    <2>6. DuplicateDropped'
      <3>1. DupKey(c) \notin posted
        BY <2>1 DEF Inv, Keyed
      <3>2. \A d \in Sockets(AccountOf[c]) \ {c} :
              ~(req[d].pc = "insert" /\ req[d].text = req[c].text)
        BY <2>1 DEF Inv, Keyed, DupKey, Sockets
      <3>3. \A d \in Conns : req'[d].pc = "insert" => <<AccountOf[d], req'[d].text>> \notin posted'
        BY <1>1, <2>2, <3>1 DEF Inv, DuplicateDropped, DupKey, At, history
      <3>4. ASSUME NEW d \in Conns, NEW e \in Sockets(AccountOf[d]) \ {d},
                   req'[d].pc = "insert", req'[e].pc = "insert", req'[e].text = req'[d].text
            PROVE  FALSE
        <4>1. CASE d = c
          BY <3>4, <4>1, <2>2, <3>2 DEF Sockets
        <4>2. CASE e = c
          BY <3>4, <4>2, <2>2, <3>2 DEF Sockets
        <4>3. CASE d # c /\ e # c
          BY <3>4, <4>3, <2>2 DEF Inv, DuplicateDropped, Sockets, At
        <4> QED
          BY <4>1, <4>2, <4>3
      <3> QED
        BY <3>3, <3>4 DEF DuplicateDropped, At, Sockets
    <2>7. CounterHasLife'
      BY <1>1, <2>2 DEF Inv, CounterHasLife, Sockets, At, history
    <2> QED
      BY <2>3, <2>4, <2>5, <2>6, <2>7 DEF Inv
  <1> QED
    BY <1>3, <1>4

LEMMA InsertStep ==
  ASSUME Inv, NEW c \in Conns, Insert(c)
  PROVE  Inv'
  <1>1. /\ req[c].pc = "insert"
        /\ UNCHANGED <<channel, slow, rate, recent, orphaned, deaths>>
        /\ posted' = posted \cup {DupKey(c)}
    BY DEF Insert, At, DupKey
  <1>2. /\ \A d \in Conns : d # c => req'[d] = req[d]
        /\ req'[c].pc \in {"start", "idle"}
        /\ req'[c].barred \subseteq req[c].barred
        /\ req' \in [Conns -> Requests]
    <2>1. CASE Goto(c, "start")
      BY <2>1, Went, Typed, "start" \in Places DEF Inv, Places
    <2>2. CASE Finish(c)
      BY <2>2, Ended, Typed, "idle" \in Places DEF Inv, Idle, Places
    <2> QED
      BY <2>1, <2>2 DEF Insert
  <1>3. req[c].barred = {}
    BY <1>1 DEF Inv, BarredStaysOut
  <1>4. TypeOK'
    <2>1. sent' \in [Accounts -> Nat] /\ spaced' \in [Accounts -> Nat]
      BY Owners DEF Inv, TypeOK, Insert
    <2>2. DupKey(c) \in Accounts \X Texts
      BY <1>1, Owners DEF Inv, Cleanly, DupKey
    <2> QED
      BY <1>1, <1>2, <2>1, <2>2 DEF Inv, TypeOK, channel, Requests, Places
  <1>5. Known' /\ BarredStaysOut' /\ Cleanly'
    BY <1>1, <1>2, <1>3 DEF Inv, Known, BarredStaysOut, Cleanly, channel
  <1>6. Keyed'
    BY <1>1, <1>2 DEF Inv, Keyed, DupKey
  <1>7. DuplicateDropped'
    BY <1>1, <1>2 DEF Inv, DuplicateDropped, DupKey, Sockets, At
  <1>8. CounterHasLife'
    BY <1>1, <1>2 DEF Inv, CounterHasLife, Sockets, At
  <1> QED
    BY <1>4, <1>5, <1>6, <1>7, <1>8 DEF Inv

LEMMA StartSlowStep ==
  ASSUME Inv, NEW c \in Conns, StartSlow(c)
  PROVE  Inv'
  <1>1. /\ req[c].pc = "start" /\ Finish(c)
        /\ slow' = slow \cup {AccountOf[c]}
        /\ UNCHANGED <<channel, rate, recent, history>>
    BY DEF StartSlow, At
  <1>2. /\ \A d \in Conns : d # c => req'[d] = req[d]
        /\ req'[c] = Idle
        /\ req' \in [Conns -> Requests]
    BY <1>1, Ended, Typed, "idle" \in Places DEF Inv, Places
  <1>3. TypeOK'
    BY <1>1, <1>2, Owners DEF Inv, TypeOK, channel, history, Requests, Places
  <1>4. Known' /\ BarredStaysOut' /\ Cleanly'
    BY <1>1, <1>2 DEF Inv, Known, BarredStaysOut, Cleanly, channel, Idle
  <1>5. Keyed' /\ DuplicateDropped'
    BY <1>1, <1>2 DEF Inv, Keyed, DuplicateDropped, DupKey, Sockets, At, history, Idle
  <1>6. CounterHasLife'
    BY <1>1, <1>2 DEF Inv, CounterHasLife, Sockets, At, history
  <1> QED
    BY <1>3, <1>4, <1>5, <1>6 DEF Inv

LEMMA DiesStep ==
  ASSUME Inv, NEW c \in Conns, Dies(c)
  PROVE  Inv'
  <1>1. /\ deaths < MaxDeaths /\ deaths' = deaths + 1 /\ Finish(c)
        /\ orphaned' = IF req[c].pc = "expire" THEN orphaned \cup {AccountOf[c]} ELSE orphaned
        /\ UNCHANGED <<channel, slow, rate, recent, sent, spaced, posted>>
    BY DEF Dies, At
  <1>2. /\ \A d \in Conns : d # c => req'[d] = req[d]
        /\ req'[c] = Idle
        /\ req' \in [Conns -> Requests]
    BY <1>1, Ended, Typed, "idle" \in Places DEF Inv, Places
  <1>3. TypeOK'
    <2>1. deaths' \in 0..MaxDeaths
      BY <1>1, BoundAssumption DEF Inv, TypeOK
    <2> QED
      BY <1>1, <1>2, <2>1, Owners DEF Inv, TypeOK, channel, Requests, Places
  <1>4. Known' /\ BarredStaysOut' /\ Cleanly'
    BY <1>1, <1>2 DEF Inv, Known, BarredStaysOut, Cleanly, channel, Idle
  <1>5. Keyed'
    BY <1>1, <1>2 DEF Inv, Keyed, DupKey, Idle
  <1>6. DuplicateDropped'
    BY <1>1, <1>2 DEF Inv, DuplicateDropped, Sockets, At, Idle
  <1>7. CounterHasLife'
    BY <1>1, <1>2 DEF Inv, CounterHasLife, Sockets, At
  <1> QED
    BY <1>3, <1>4, <1>5, <1>6, <1>7 DEF Inv

-----------------------------------------------------------------------------
(* What happens meanwhile leaves every request where it is, and takes at   *)
(* most reasons away from it.                                              *)
LEMMA Excused ==
  ASSUME TypeOK, NEW a, NEW reason, Excuse(a, reason)
  PROVE  /\ req' \in [Conns -> Requests]
         /\ \A c \in Conns :
              /\ req'[c].pc = req[c].pc /\ req'[c].text = req[c].text
              /\ req'[c].followersOnly = req[c].followersOnly
              /\ req'[c].barred = IF AccountOf[c] = a THEN req[c].barred \ {reason}
                                                      ELSE req[c].barred
  <1>1. req \in [Conns -> Requests]
    BY DEF TypeOK, Requests, Places
  <1>2. \A c \in Conns :
          req'[c] = IF AccountOf[c] = a THEN [req[c] EXCEPT !.barred = @ \ {reason}] ELSE req[c]
    BY DEF Excuse
  <1>3. ASSUME NEW c \in Conns
        PROVE  /\ req'[c] \in Requests
               /\ req'[c].pc = req[c].pc /\ req'[c].text = req[c].text
               /\ req'[c].followersOnly = req[c].followersOnly
               /\ req'[c].barred = IF AccountOf[c] = a THEN req[c].barred \ {reason}
                                                       ELSE req[c].barred
    <2>1. req[c] \in Requests
      BY <1>1
    <2>2. CASE AccountOf[c] = a
      <3>1. req'[c] = [req[c] EXCEPT !.barred = req[c].barred \ {reason}]
        BY <1>2, <2>2
      <3> QED
        BY <2>1, <2>2, <3>1 DEF Requests
    <2>3. CASE AccountOf[c] # a
      BY <1>2, <2>1, <2>3
    <2> QED
      BY <2>2, <2>3
  <1> QED
    BY <1>3 DEF Excuse

LEMMA FreeStep ==
  ASSUME Inv, NEW a \in Accounts, Free(a)
  PROVE  Inv'
  <1>1. /\ restricted' = restricted \ {a} /\ Excuse(a, "ban")
        /\ UNCHANGED <<moderates, following, slow, rate, recent, history>>
    BY DEF Free
  <1>2. /\ req' \in [Conns -> Requests]
        /\ \A c \in Conns :
             /\ req'[c].pc = req[c].pc /\ req'[c].text = req[c].text
             /\ req'[c].followersOnly = req[c].followersOnly
             /\ req'[c].barred \subseteq req[c].barred
             /\ AccountOf[c] = a => "ban" \notin req'[c].barred
    <2>1. /\ req' \in [Conns -> Requests]
          /\ \A c \in Conns :
               /\ req'[c].pc = req[c].pc /\ req'[c].text = req[c].text
               /\ req'[c].followersOnly = req[c].followersOnly
               /\ req'[c].barred = IF AccountOf[c] = a THEN req[c].barred \ {"ban"}
                                                       ELSE req[c].barred
      BY <1>1, Excused DEF Inv
    <2> QED
      BY <2>1
  <1>3. TypeOK'
    BY <1>1, <1>2 DEF Inv, TypeOK, history, Requests, Places
  <1>4. Known'
    BY <1>1, <1>2 DEF Inv, Known
  <1>5. BarredStaysOut' /\ Cleanly'
    BY <1>1, <1>2 DEF Inv, BarredStaysOut, Cleanly
  <1>6. Keyed'
    BY <1>1, <1>2 DEF Inv, Keyed, DupKey, history
  <1>7. DuplicateDropped'
    BY SMTT(30), <1>1, <1>2 DEF Inv, DuplicateDropped, Sockets, At, history
  <1>8. CounterHasLife'
    BY <1>1, <1>2 DEF Inv, CounterHasLife, Sockets, At, history
  <1> QED
    BY <1>3, <1>4, <1>5, <1>6, <1>7, <1>8 DEF Inv

LEMMA FollowStep ==
  ASSUME Inv, NEW a \in Accounts, Follow(a)
  PROVE  Inv'
  <1>1. /\ following' = following \cup {a} /\ Excuse(a, "follow")
        /\ UNCHANGED <<moderates, restricted, slow, rate, recent, history>>
    BY DEF Follow
  <1>2. /\ req' \in [Conns -> Requests]
        /\ \A c \in Conns :
             /\ req'[c].pc = req[c].pc /\ req'[c].text = req[c].text
             /\ req'[c].followersOnly = req[c].followersOnly
             /\ req'[c].barred \subseteq req[c].barred
             /\ AccountOf[c] = a => "follow" \notin req'[c].barred
    <2>1. /\ req' \in [Conns -> Requests]
          /\ \A c \in Conns :
               /\ req'[c].pc = req[c].pc /\ req'[c].text = req[c].text
               /\ req'[c].followersOnly = req[c].followersOnly
               /\ req'[c].barred = IF AccountOf[c] = a THEN req[c].barred \ {"follow"}
                                                       ELSE req[c].barred
      BY <1>1, Excused DEF Inv
    <2> QED
      BY <2>1
  <1>3. TypeOK'
    BY <1>1, <1>2 DEF Inv, TypeOK, history, Requests, Places
  <1>4. Known'
    BY <1>1, <1>2 DEF Inv, Known
  <1>5. BarredStaysOut' /\ Cleanly'
    BY <1>1, <1>2 DEF Inv, BarredStaysOut, Cleanly
  <1>6. Keyed'
    BY <1>1, <1>2 DEF Inv, Keyed, DupKey, history
  <1>7. DuplicateDropped'
    BY SMTT(30), <1>1, <1>2 DEF Inv, DuplicateDropped, Sockets, At, history
  <1>8. CounterHasLife'
    BY <1>1, <1>2 DEF Inv, CounterHasLife, Sockets, At, history
  <1> QED
    BY <1>3, <1>4, <1>5, <1>6, <1>7, <1>8 DEF Inv

LEMMA RowsAndKeysStep ==
  ASSUME Inv, NEW a \in Accounts,
         BanUser(a) \/ Unfollow(a) \/ SlowEnds(a) \/ RateEnds(a)
  PROVE  Inv'
  <1> USE DEF Inv, Known, BarredStaysOut, Cleanly, Keyed, DuplicateDropped, CounterHasLife,
              DupKey, Sockets, At, history, channel
  <1>1. CASE BanUser(a)
    <2>1. TypeOK'
      BY <1>1 DEF BanUser, TypeOK
    <2> QED
      BY <1>1, <2>1 DEF BanUser
  <1>2. CASE Unfollow(a)
    <2>1. TypeOK'
      BY <1>2 DEF Unfollow, TypeOK
    <2> QED
      BY <1>2, <2>1 DEF Unfollow
  <1>3. CASE SlowEnds(a)
    <2>1. TypeOK'
      BY <1>3 DEF SlowEnds, TypeOK
    <2> QED
      BY <1>3, <2>1 DEF SlowEnds
  <1>4. CASE RateEnds(a)
    <2>1. rate' \in [Accounts -> [n : 0..(Burst + 1), expires : BOOLEAN]]
      BY <1>4, BoundAssumption DEF RateEnds, TypeOK, Fresh
    <2>2. TypeOK'
      BY <1>4, <2>1 DEF RateEnds, TypeOK
    <2>3. \A b \in Accounts : rate'[b] = IF b = a THEN Fresh ELSE rate[b]
      BY <1>4 DEF RateEnds, TypeOK
    <2>4. CounterHasLife'
      BY <1>4, <2>3 DEF RateEnds, Fresh
    <2> QED
      BY <1>4, <2>2, <2>4 DEF RateEnds
  <1> QED
    BY <1>1, <1>2, <1>3, <1>4

LEMMA DuplicateEndsStep ==
  ASSUME Inv, NEW k, DuplicateEnds(k)
  PROVE  Inv'
  <1>1. /\ \A c \in Conns : req[c].pc = "insert" => DupKey(c) # k
        /\ recent' = recent \ {k} /\ posted' = posted \ {k}
        /\ UNCHANGED <<channel, req, slow, rate, sent, spaced, orphaned, deaths>>
    BY DEF DuplicateEnds, At
  <1>2. TypeOK'
    BY <1>1 DEF Inv, TypeOK, channel
  <1>3. Known' /\ BarredStaysOut' /\ Cleanly'
    BY <1>1 DEF Inv, Known, BarredStaysOut, Cleanly, channel
  <1>4. Keyed'
    BY <1>1 DEF Inv, Keyed, DupKey
  <1>5. DuplicateDropped' /\ CounterHasLife'
    BY <1>1 DEF Inv, DuplicateDropped, CounterHasLife, Sockets, At
  <1> QED
    BY <1>2, <1>3, <1>4, <1>5 DEF Inv

LEMMA InvNext == Inv /\ [Next]_vars => Inv'
  <1> SUFFICES ASSUME Inv, [Next]_vars PROVE Inv'
    OBVIOUS
  <1>1. CASE UNCHANGED vars
    <2> USE <1>1 DEF vars, Inv
    <2>1. TypeOK'
      BY DEF TypeOK
    <2>2. Known' /\ BarredStaysOut' /\ Cleanly'
      BY DEF Known, BarredStaysOut, Cleanly
    <2>3. Keyed'
      BY DEF Keyed, DupKey
    <2>4. DuplicateDropped' /\ CounterHasLife'
      BY DEF DuplicateDropped, CounterHasLife, Sockets, At
    <2> QED
      BY <2>1, <2>2, <2>3, <2>4
  <1>2. ASSUME NEW c \in Conns, Load(c) \/ SendStep(c) \/ Dies(c) PROVE Inv'
    BY <1>2, LoadStep, CheckBanStep, CheckFollowStep, CheckSlowStep, TakeTokenStep, ExpireStep,
       CheckDuplicateStep, InsertStep, StartSlowStep, DiesStep DEF SendStep
  <1>3. ASSUME NEW a \in Accounts,
               BanUser(a) \/ Free(a) \/ Follow(a) \/ Unfollow(a) \/ SlowEnds(a) \/ RateEnds(a)
        PROVE  Inv'
    BY <1>3, FreeStep, FollowStep, RowsAndKeysStep
  <1> QED
    BY <1>1, <1>2, <1>3, DuplicateEndsStep DEF Next

LEMMA Invariant == Spec => []Inv
  BY InvInit, InvNext, PTL DEF Spec

-----------------------------------------------------------------------------
(* Rows, Redis keys and requests keep their types (TypeOK). *)
THEOREM TypeCorrect == Spec => []TypeOK
  BY Invariant, PTL DEF Inv

(* A message whose account was barred before it was sent, and still is, is *)
(* not stored, whatever the settings, roles and races (BarredStaysOut).    *)
THEOREM BarredAlwaysOut == Spec => []BarredStaysOut
  BY Invariant, PTL DEF Inv

(* A counter without a life has a handler about to give it one, unless one *)
(* died there (CounterHasLife).                                            *)
THEOREM CounterAlwaysLives == Spec => []CounterHasLife
  BY Invariant, PTL DEF Inv

(* Of the same text sent by several sockets of an account at once only one *)
(* is stored (DuplicateDropped).                                           *)
THEOREM DuplicatesAlwaysDropped == Spec => []DuplicateDropped
  BY Invariant, PTL DEF Inv

-----------------------------------------------------------------------------
(***************************************************************************)
(* The limits: what an account got through in a window, and the sockets    *)
(* that may still get a message through, are together as many as the limit *)
(* and its sockets allow.                                                  *)
(***************************************************************************)
(* A token taken and not used *)
Holds(r) == r.pc \in {"expire", "dup", "insert"}

(* Under slow mode, past its check, ... *)
Passed(r) == r.slow /\ r.pc \in {"rate", "expire", "dup", "insert"}

(* ... and about to start its window *)
Starts(r) == r.pc = "start"

Holding(a)  == {c \in Sockets(a) : Holds(req[c])}
Passing(a)  == {c \in Sockets(a) : Passed(req[c])}
Starting(a) == {c \in Sockets(a) : Starts(req[c])}

(* Tokens the counter has given *)
Admitted(a) == IF rate[a].n > Burst THEN Burst ELSE rate[a].n

RateOf(a) == sent[a] + Cardinality(Holding(a)) <= Cardinality(Sockets(a)) + Admitted(a)

SlowOf(a) ==
  /\ a \in slow => spaced[a] + Cardinality(Passing(a)) <= Cardinality(Sockets(a)) + deaths
  /\ a \notin slow => spaced[a] <= Cardinality(Starting(a)) + deaths

(* Moderators have no limits, and are not counted. *)
LimitsOf(a) ==
  IF a \in moderates THEN sent[a] = 0 /\ spaced[a] = 0 ELSE RateOf(a) /\ SlowOf(a)

Limits == \A a \in Accounts : LimitsOf(a)

-----------------------------------------------------------------------------
(* Counting *)

Bit(b) == IF b THEN 1 ELSE 0

LEMMA Tally ==
  ASSUME NEW S, IsFiniteSet(S), NEW c
  PROVE  /\ Cardinality(S) \in Nat
         /\ c \in S => Cardinality(S) >= 1
         /\ Cardinality(S \cup {c}) = Cardinality(S) + 1 - Bit(c \in S)
         /\ Cardinality(S \ {c}) = Cardinality(S) - Bit(c \in S)
  <1>1. Cardinality(S) \in Nat /\ (c \in S => Cardinality(S) # 0)
    BY FS_CardinalityType, FS_EmptySet
  <1>2. /\ Cardinality(S \cup {c}) = IF c \in S THEN Cardinality(S) ELSE Cardinality(S) + 1
        /\ Cardinality(S \ {c}) = IF c \in S THEN Cardinality(S) - 1 ELSE Cardinality(S)
    BY FS_AddElement, FS_RemoveElement
  <1> QED
    BY <1>1, <1>2 DEF Bit

(* What is counted is part of the sockets; no socket is past the check and *)
(* about to start at once.                                                 *)
LEMMA Sizes ==
  ASSUME NEW a
  PROVE  /\ IsFiniteSet(Sockets(a)) /\ IsFiniteSet(Holding(a))
         /\ IsFiniteSet(Passing(a)) /\ IsFiniteSet(Starting(a))
         /\ Cardinality(Sockets(a)) \in Nat /\ Cardinality(Holding(a)) \in Nat
         /\ Cardinality(Passing(a)) \in Nat /\ Cardinality(Starting(a)) \in Nat
         /\ Cardinality(Holding(a)) <= Cardinality(Sockets(a))
         /\ Cardinality(Passing(a)) + Cardinality(Starting(a)) <= Cardinality(Sockets(a))
  <1>1. IsFiniteSet(Sockets(a))
    BY ConnAssumption, FS_Subset DEF Sockets
  <1>2. /\ Holding(a) \subseteq Sockets(a) /\ Passing(a) \subseteq Sockets(a)
        /\ Starting(a) \subseteq Sockets(a)
    BY DEF Holding, Passing, Starting
  <1>3. /\ IsFiniteSet(Holding(a)) /\ IsFiniteSet(Passing(a)) /\ IsFiniteSet(Starting(a))
        /\ Cardinality(Holding(a)) <= Cardinality(Sockets(a))
    BY <1>1, <1>2, FS_Subset
  <1>4. Passing(a) \cap Starting(a) = {}
    BY DEF Passing, Starting, Passed, Starts
  <1>5. Cardinality(Passing(a) \cup Starting(a)) = Cardinality(Passing(a)) + Cardinality(Starting(a))
    <2>1. Cardinality(Passing(a) \cup Starting(a)) =
            Cardinality(Passing(a)) + Cardinality(Starting(a)) - Cardinality(Passing(a) \cap Starting(a))
      BY <1>3, FS_Union
    <2>2. Cardinality(Passing(a) \cap Starting(a)) = 0
      BY <1>4, FS_EmptySet
    <2> QED
      BY <1>3, <2>1, <2>2, FS_CardinalityType
  <1>6. Cardinality(Passing(a) \cup Starting(a)) <= Cardinality(Sockets(a))
    BY <1>1, <1>2, FS_Subset, Passing(a) \cup Starting(a) \subseteq Sockets(a)
  <1> QED
    BY <1>1, <1>3, <1>5, <1>6, FS_CardinalityType

(* One socket moves. *)
LEMMA Moved ==
  ASSUME NEW c \in Conns, \A d \in Conns : d # c => req'[d] = req[d]
  PROVE  LET a == AccountOf[c]
         IN  /\ \A b \in Accounts \ {a} : /\ Holding(b)' = Holding(b)
                                          /\ Passing(b)' = Passing(b)
                                          /\ Starting(b)' = Starting(b)
             /\ Holding(a)' = IF Holds(req'[c]) THEN Holding(a) \cup {c} ELSE Holding(a) \ {c}
             /\ Passing(a)' = IF Passed(req'[c]) THEN Passing(a) \cup {c} ELSE Passing(a) \ {c}
             /\ Starting(a)' = IF Starts(req'[c]) THEN Starting(a) \cup {c} ELSE Starting(a) \ {c}
             /\ c \in Holding(a) <=> Holds(req[c])
             /\ c \in Passing(a) <=> Passed(req[c])
             /\ c \in Starting(a) <=> Starts(req[c])
  <1> DEFINE a == AccountOf[c]
  <1>1. \A b \in Accounts \ {a} : /\ Holding(b)' = Holding(b)
                                  /\ Passing(b)' = Passing(b)
                                  /\ Starting(b)' = Starting(b)
    BY DEF Holding, Passing, Starting, Sockets
  <1>2. Holding(a)' = IF Holds(req'[c]) THEN Holding(a) \cup {c} ELSE Holding(a) \ {c}
    BY DEF Holding, Sockets
  <1>3. Passing(a)' = IF Passed(req'[c]) THEN Passing(a) \cup {c} ELSE Passing(a) \ {c}
    BY DEF Passing, Sockets
  <1>4. Starting(a)' = IF Starts(req'[c]) THEN Starting(a) \cup {c} ELSE Starting(a) \ {c}
    BY DEF Starting, Sockets
  <1>5. /\ c \in Holding(a) <=> Holds(req[c])
        /\ c \in Passing(a) <=> Passed(req[c])
        /\ c \in Starting(a) <=> Starts(req[c])
    BY DEF Holding, Passing, Starting, Sockets
  <1> QED
    BY <1>1, <1>2, <1>3, <1>4, <1>5

LEMMA Counted ==
  ASSUME NEW c \in Conns, \A d \in Conns : d # c => req'[d] = req[d]
  PROVE  LET a == AccountOf[c]
         IN  /\ Cardinality(Holding(a))' = Cardinality(Holding(a))
                                             + Bit(Holds(req'[c])) - Bit(Holds(req[c]))
             /\ Cardinality(Passing(a))' = Cardinality(Passing(a))
                                             + Bit(Passed(req'[c])) - Bit(Passed(req[c]))
             /\ Cardinality(Starting(a))' = Cardinality(Starting(a))
                                              + Bit(Starts(req'[c])) - Bit(Starts(req[c]))
  <1> DEFINE a == AccountOf[c]
  <1>1. Cardinality(Holding(a))' = Cardinality(Holding(a)) + Bit(Holds(req'[c])) - Bit(Holds(req[c]))
    <2>1. IsFiniteSet(Holding(a))
      BY Sizes
    <2>2. Holding(a)' = IF Holds(req'[c]) THEN Holding(a) \cup {c} ELSE Holding(a) \ {c}
      BY Moved
    <2>3. Bit(c \in Holding(a)) = Bit(Holds(req[c]))
      BY Moved DEF Bit
    <2>4. /\ Cardinality(Holding(a)) \in Nat
          /\ Cardinality(Holding(a) \cup {c}) = Cardinality(Holding(a)) + 1 - Bit(Holds(req[c]))
          /\ Cardinality(Holding(a) \ {c}) = Cardinality(Holding(a)) - Bit(Holds(req[c]))
      BY <2>1, <2>3, Tally
    <2>5. Bit(Holds(req[c])) \in {0, 1}
      BY DEF Bit
    <2>6. CASE Holds(req'[c])
      BY <2>2, <2>4, <2>5, <2>6 DEF Bit
    <2>7. CASE ~Holds(req'[c])
      BY <2>2, <2>4, <2>5, <2>7 DEF Bit
    <2> QED
      BY <2>6, <2>7
  <1>2. Cardinality(Passing(a))' = Cardinality(Passing(a)) + Bit(Passed(req'[c])) - Bit(Passed(req[c]))
    <2>1. IsFiniteSet(Passing(a))
      BY Sizes
    <2>2. Passing(a)' = IF Passed(req'[c]) THEN Passing(a) \cup {c} ELSE Passing(a) \ {c}
      BY Moved
    <2>3. Bit(c \in Passing(a)) = Bit(Passed(req[c]))
      BY Moved DEF Bit
    <2>4. /\ Cardinality(Passing(a)) \in Nat
          /\ Cardinality(Passing(a) \cup {c}) = Cardinality(Passing(a)) + 1 - Bit(Passed(req[c]))
          /\ Cardinality(Passing(a) \ {c}) = Cardinality(Passing(a)) - Bit(Passed(req[c]))
      BY <2>1, <2>3, Tally
    <2>5. Bit(Passed(req[c])) \in {0, 1}
      BY DEF Bit
    <2>6. CASE Passed(req'[c])
      BY <2>2, <2>4, <2>5, <2>6 DEF Bit
    <2>7. CASE ~Passed(req'[c])
      BY <2>2, <2>4, <2>5, <2>7 DEF Bit
    <2> QED
      BY <2>6, <2>7
  <1>3. Cardinality(Starting(a))' = Cardinality(Starting(a)) + Bit(Starts(req'[c])) - Bit(Starts(req[c]))
    <2>1. IsFiniteSet(Starting(a))
      BY Sizes
    <2>2. Starting(a)' = IF Starts(req'[c]) THEN Starting(a) \cup {c} ELSE Starting(a) \ {c}
      BY Moved
    <2>3. Bit(c \in Starting(a)) = Bit(Starts(req[c]))
      BY Moved DEF Bit
    <2>4. /\ Cardinality(Starting(a)) \in Nat
          /\ Cardinality(Starting(a) \cup {c}) = Cardinality(Starting(a)) + 1 - Bit(Starts(req[c]))
          /\ Cardinality(Starting(a) \ {c}) = Cardinality(Starting(a)) - Bit(Starts(req[c]))
      BY <2>1, <2>3, Tally
    <2>5. Bit(Starts(req[c])) \in {0, 1}
      BY DEF Bit
    <2>6. CASE Starts(req'[c])
      BY <2>2, <2>4, <2>5, <2>6 DEF Bit
    <2>7. CASE ~Starts(req'[c])
      BY <2>2, <2>4, <2>5, <2>7 DEF Bit
    <2> QED
      BY <2>6, <2>7
  <1> QED
    BY <1>1, <1>2, <1>3

-----------------------------------------------------------------------------
LEMMA LimitsInit == Init => Limits
  <1> SUFFICES ASSUME Init, NEW a \in Accounts PROVE LimitsOf(a)
    BY DEF Limits
  <1>1. rate[a].n = 0 /\ sent[a] = 0 /\ spaced[a] = 0 /\ slow = {} /\ deaths = 0
    BY DEF Init, Fresh
  <1>2. Admitted(a) = 0
    BY <1>1, BoundAssumption DEF Admitted
  <1> QED
    BY <1>1, <1>2, Sizes DEF LimitsOf, RateOf, SlowOf

(* A step of one socket is no concern of other accounts. *)
LEMMA Others ==
  ASSUME TypeOK, Limits, NEW c \in Conns, \A d \in Conns : d # c => req'[d] = req[d],
         UNCHANGED moderates, deaths' \in Nat, deaths' >= deaths,
         \A b \in Accounts \ {AccountOf[c]} :
           /\ rate'[b] = rate[b] /\ sent'[b] = sent[b] /\ spaced'[b] = spaced[b]
           /\ b \in slow' <=> b \in slow,
         LimitsOf(AccountOf[c])'
  PROVE  Limits'
  <1> SUFFICES ASSUME NEW b \in Accounts, b # AccountOf[c] PROVE LimitsOf(b)'
    BY DEF Limits
  <1>1. Holding(b)' = Holding(b) /\ Passing(b)' = Passing(b) /\ Starting(b)' = Starting(b)
    BY Moved
  <1>2. Admitted(b)' = Admitted(b)
    BY DEF Admitted
  <1>3. deaths \in Nat /\ spaced[b] \in Nat
    BY BoundAssumption DEF TypeOK
  <1>4. LimitsOf(b)
    BY DEF Limits
  <1>5. CASE b \in moderates
    BY <1>4, <1>5 DEF LimitsOf
  <1>6. CASE b \notin moderates
    <2>1. RateOf(b)'
      BY <1>1, <1>2, <1>4, <1>6 DEF LimitsOf, RateOf, Sockets
    <2>2. SlowOf(b)'
      <3>1. SlowOf(b)
        BY <1>4, <1>6 DEF LimitsOf
      <3>2. /\ Cardinality(Sockets(b)) \in Nat /\ Cardinality(Passing(b)) \in Nat
            /\ Cardinality(Starting(b)) \in Nat /\ Sockets(b)' = Sockets(b)
        BY Sizes DEF Sockets
      <3>3. CASE b \in slow
        BY <1>1, <1>3, <3>1, <3>2, <3>3 DEF SlowOf
      <3>4. CASE b \notin slow
        BY <1>1, <1>3, <3>1, <3>2, <3>4 DEF SlowOf
      <3> QED
        BY <3>3, <3>4
    <2> QED
      BY <1>6, <2>1, <2>2 DEF LimitsOf
  <1> QED
    BY <1>5, <1>6

(* A step that gets nothing through and starts no window keeps the limits  *)
(* of its account when it takes no token and passes no check, or pays for  *)
(* them.                                                                   *)
LEMMA Reading ==
  ASSUME TypeOK, Limits, NEW c \in Conns, \A d \in Conns : d # c => req'[d] = req[d],
         UNCHANGED <<moderates, slow, sent, spaced, deaths>>,
         \A b \in Accounts \ {AccountOf[c]} : rate'[b] = rate[b],
         Privileged(c) \/
           /\ Admitted(AccountOf[c])' \in Nat
           /\ Admitted(AccountOf[c])' + Bit(Holds(req[c])) >=
                 Admitted(AccountOf[c]) + Bit(Holds(req'[c]))
           /\ Passed(req'[c]) => Passed(req[c]) \/ AccountOf[c] \notin slow
           /\ ~Starts(req[c])
  PROVE  Limits'
  <1> DEFINE a == AccountOf[c]
  <1>1. a \in Accounts /\ LimitsOf(a)
    BY Owners DEF Limits
  <1>2. LimitsOf(a)'
    <2>1. CASE a \in moderates
      BY <1>1, <2>1 DEF LimitsOf
    <2>2. CASE a \notin moderates
      <3>1. /\ Admitted(a)' \in Nat /\ Admitted(a) \in Nat
            /\ Admitted(a)' + Bit(Holds(req[c])) >= Admitted(a) + Bit(Holds(req'[c]))
            /\ Passed(req'[c]) => Passed(req[c]) \/ a \notin slow
            /\ ~Starts(req[c])
        <4>1. Admitted(a) \in Nat
          BY <1>1, BoundAssumption DEF Admitted, TypeOK
        <4> QED
          BY <2>2, <4>1 DEF Privileged
      <3>2. /\ sent'[a] = sent[a] /\ sent[a] \in Nat /\ spaced'[a] = spaced[a] /\ spaced[a] \in Nat
            /\ deaths' = deaths /\ deaths \in Nat
        BY <1>1, BoundAssumption DEF TypeOK
      <3>3. RateOf(a) /\ SlowOf(a)
        BY <1>1, <2>2 DEF LimitsOf
      <3>4. RateOf(a)'
        BY <3>1, <3>2, <3>3, Counted, Sizes DEF RateOf, Bit, Sockets
      <3>5. SlowOf(a)'
        <4>1. CASE a \in slow
          BY <3>1, <3>2, <3>3, <4>1, Counted, Sizes DEF SlowOf, Bit, Sockets
        <4>2. CASE a \notin slow
          <5>1. Cardinality(Starting(a))' = Cardinality(Starting(a)) + Bit(Starts(req'[c]))
            BY <3>1, Counted, Sizes DEF Bit
          <5>2. Bit(Starts(req'[c])) \in {0, 1} /\ Cardinality(Starting(a)) \in Nat
            BY Sizes DEF Bit
          <5> QED
            BY <3>2, <3>3, <4>2, <5>1, <5>2 DEF SlowOf
        <4> QED
          BY <4>1, <4>2
      <3> QED
        BY <2>2, <3>4, <3>5 DEF LimitsOf
    <2> QED
      BY <2>1, <2>2
  <1>3. deaths' \in Nat /\ deaths' >= deaths
    BY BoundAssumption DEF TypeOK
  <1> QED
    BY <1>2, <1>3, Others

-----------------------------------------------------------------------------
(* The checks before the rate limit *)

LEMMA ViewerPaths ==
  ASSUME NEW c \in Conns, ~Privileged(c)
  PROVE  /\ PastSlow(c) = "rate"
         /\ PastFollow(c) = IF req[c].slow THEN "slow" ELSE "rate"
         /\ PastBan(c) \in {"follow", PastFollow(c)}
  BY DEF PastSlow, PastFollow, PastBan

LEMMA Admission ==
  ASSUME TypeOK, NEW a \in Accounts
  PROVE  Admitted(a) \in Nat /\ Admitted(a) <= Burst
  BY BoundAssumption DEF TypeOK, Admitted

LEMMA LoadLimits ==
  ASSUME TypeOK, Limits, NEW c \in Conns, Load(c)
  PROVE  Limits'
  <1>1. /\ req[c].pc = "idle"
        /\ UNCHANGED <<channel, slow, rate, recent, history>>
    BY DEF Load, At
  <1>2. PICK t \in Texts \cup {BadText}, s \in BOOLEAN, f \in BOOLEAN :
          req' = [req EXCEPT ![c] = [pc |-> "ban", text |-> t, slow |-> s,
                                     followersOnly |-> f, barred |-> Reasons(c, f)]]
    BY DEF Load
  <1>3. req'[c].pc = "ban" /\ \A d \in Conns : d # c => req'[d] = req[d]
    BY <1>2 DEF TypeOK
  <1>4. ~Holds(req[c]) /\ ~Holds(req'[c]) /\ ~Passed(req'[c]) /\ ~Starts(req[c])
    BY <1>1, <1>3 DEF Holds, Passed, Starts
  <1>5. \A a \in Accounts : Admitted(a)' = Admitted(a)
    BY <1>1 DEF Admitted
  <1> QED
    BY <1>1, <1>3, <1>4, <1>5, Admission, Owners, Reading DEF Bit, channel, history

LEMMA CheckLimits ==
  ASSUME TypeOK, Limits, NEW c \in Conns, CheckBan(c) \/ CheckFollow(c) \/ CheckSlow(c)
  PROVE  Limits'
  <1>1. /\ req[c].pc \in {"ban", "follow", "slow"}
        /\ UNCHANGED <<channel, slow, rate, recent, history>>
    BY DEF CheckBan, CheckFollow, CheckSlow, At
  <1>2. \/ Finish(c)
        \/ Goto(c, PastBan(c)) \/ Goto(c, PastFollow(c))
        \/ Goto(c, PastSlow(c)) /\ AccountOf[c] \notin slow
    BY DEF CheckBan, CheckFollow, CheckSlow, Proceed
  <1>3. \A d \in Conns : d # c => req'[d] = req[d]
    BY <1>2, Went, Ended
  <1>4. ASSUME ~Privileged(c)
        PROVE  ~Holds(req'[c]) /\ (Passed(req'[c]) => AccountOf[c] \notin slow)
    <2>1. CASE Finish(c)
      BY <2>1, Ended DEF Idle, Holds, Passed
    <2>2. CASE Goto(c, PastSlow(c)) /\ AccountOf[c] \notin slow
      BY <1>4, <2>2, Went, ViewerPaths DEF Holds
    <2>3. ASSUME NEW pc, Goto(c, pc), pc \in {"follow", PastFollow(c)}
          PROVE  ~Holds(req'[c]) /\ ~Passed(req'[c])
      <3>1. req'[c].pc = pc /\ req'[c].slow = req[c].slow
        BY <2>3, Went
      <3>2. pc \in {"follow", IF req[c].slow THEN "slow" ELSE "rate"}
        BY <1>4, <2>3, ViewerPaths
      <3> QED
        BY <3>1, <3>2 DEF Holds, Passed
    <2> QED
      BY <1>2, <1>4, <2>1, <2>2, <2>3, ViewerPaths
  <1>5. ~Holds(req[c]) /\ ~Starts(req[c])
    BY <1>1 DEF Holds, Starts
  <1>6. \A a \in Accounts : Admitted(a)' = Admitted(a)
    BY <1>1 DEF Admitted
  <1> QED
    BY <1>1, <1>3, <1>4, <1>5, <1>6, Admission, Owners, Reading DEF Bit, channel, history

-----------------------------------------------------------------------------
(* The rate limit and the duplicate check *)

LEMMA TakeTokenLimits ==
  ASSUME TypeOK, Limits, NEW c \in Conns, TakeToken(c)
  PROVE  Limits'
  <1> DEFINE a == AccountOf[c]
             n == IF rate[a].n > Burst THEN rate[a].n ELSE rate[a].n + 1
  <1>1. /\ req[c].pc = "rate" /\ rate' = [rate EXCEPT ![a].n = n]
        /\ UNCHANGED <<channel, slow, recent, history>>
    BY DEF TakeToken, At
  <1>2. /\ a \in Accounts /\ Burst \in Nat \ {0}
        /\ rate[a].n \in 0..(Burst + 1)
    BY Owners, BoundAssumption DEF TypeOK
  <1>3. rate'[a].n = n /\ \A b \in Accounts \ {a} : rate'[b] = rate[b]
    BY <1>1, <1>2 DEF TypeOK
  <1>4. \/ n <= Burst /\ \E pc \in {"expire", "dup"} : Goto(c, pc)
        \/ Finish(c)
    <2>1. CASE n = 1
      BY <1>2, <2>1 DEF TakeToken
    <2>2. CASE n > 1 /\ Within(n)
      BY <2>2, <1>2, Paths DEF TakeToken, Proceed, Within
    <2>3. CASE n > 1 /\ ~Within(n)
      BY <2>3, <1>2 DEF TakeToken
    <2> QED
      BY <1>2, <2>1, <2>2, <2>3
  <1>5. \A d \in Conns : d # c => req'[d] = req[d]
    BY <1>4, Went, Ended
  <1>6. Passed(req'[c]) => Passed(req[c])
    <2>1. CASE Finish(c)
      BY <2>1, Ended DEF Idle, Passed
    <2>2. CASE ~Finish(c)
      BY <1>1, <1>4, <2>2, Went DEF Passed
    <2> QED
      BY <2>1, <2>2
  <1>7. ~Holds(req[c]) /\ ~Starts(req[c])
    BY <1>1 DEF Holds, Starts
  <1>8. Admitted(a)' \in Nat /\ Admitted(a)' >= Admitted(a) + Bit(Holds(req'[c]))
    <2>1. Admitted(a)' = IF n > Burst THEN Burst ELSE n
      BY <1>3 DEF Admitted
    <2>2. CASE Finish(c)
      <3>1. Bit(Holds(req'[c])) = 0
        BY <2>2, Ended DEF Idle, Holds, Bit
      <3> QED
        BY <1>2, <2>1, <3>1 DEF Admitted
    <2>3. CASE n <= Burst
      <3>1. Bit(Holds(req'[c])) \in {0, 1}
        BY DEF Bit
      <3> QED
        BY <1>2, <2>1, <2>3, <3>1 DEF Admitted
    <2> QED
      BY <1>4, <2>2, <2>3
  <1> HIDE DEF a
  <1>9. Admitted(a)' + Bit(Holds(req[c])) >= Admitted(a) + Bit(Holds(req'[c]))
    <2>1. Bit(Holds(req[c])) = 0
      BY <1>7 DEF Bit
    <2> QED
      BY <1>8, <2>1
  <1>10. UNCHANGED <<moderates, slow, sent, spaced, deaths>>
    BY <1>1 DEF channel, history
  <1> QED
    BY <1>3, <1>5, <1>6, <1>7, <1>8, <1>9, <1>10, Reading DEF a

LEMMA HeldLimits ==
  ASSUME TypeOK, Limits, NEW c \in Conns, Expire(c) \/ CheckDuplicate(c)
  PROVE  Limits'
  <1>1. /\ req[c].pc \in {"expire", "dup"}
        /\ UNCHANGED <<channel, slow, history>>
    BY DEF Expire, CheckDuplicate, At
  <1>2. Finish(c) \/ \E pc \in {"dup", "insert"} : Goto(c, pc)
    BY Paths DEF Expire, CheckDuplicate, Proceed
  <1>3. /\ \A b \in Accounts \ {AccountOf[c]} : rate'[b] = rate[b]
        /\ rate'[AccountOf[c]].n = rate[AccountOf[c]].n
    BY Owners DEF Expire, CheckDuplicate, TypeOK
  <1>4. \A d \in Conns : d # c => req'[d] = req[d]
    BY <1>2, Went, Ended
  <1>5. Passed(req'[c]) => Passed(req[c])
    <2>1. CASE Finish(c)
      BY <2>1, Ended DEF Idle, Passed
    <2>2. CASE ~Finish(c)
      BY <1>1, <1>2, <2>2, Went DEF Passed
    <2> QED
      BY <2>1, <2>2
  <1>6. Holds(req[c]) /\ ~Starts(req[c])
    BY <1>1 DEF Holds, Starts
  <1>7. Admitted(AccountOf[c])' = Admitted(AccountOf[c])
    BY <1>3 DEF Admitted
  <1>8. Admitted(AccountOf[c])' + Bit(Holds(req[c])) >= Admitted(AccountOf[c]) + Bit(Holds(req'[c]))
    <2>1. Bit(Holds(req[c])) = 1 /\ Bit(Holds(req'[c])) \in {0, 1}
      BY <1>6 DEF Bit
    <2>2. Admitted(AccountOf[c]) \in Nat
      BY Admission, Owners
    <2> QED
      BY <1>7, <2>1, <2>2
  <1>9. Admitted(AccountOf[c])' \in Nat
    BY <1>7, Admission, Owners
  <1>10. UNCHANGED <<moderates, slow, sent, spaced, deaths>>
    BY <1>1 DEF channel, history
  <1> QED
    BY <1>3, <1>4, <1>5, <1>6, <1>8, <1>9, <1>10, Reading

-----------------------------------------------------------------------------
(* Storing the message, starting the window, and ending half-way *)

LEMMA InsertLimits ==
  ASSUME TypeOK, Limits, NEW c \in Conns, Insert(c)
  PROVE  Limits'
  <1> DEFINE a == AccountOf[c]
             spacing == req[c].slow /\ ~Privileged(c)
  <1>1. /\ req[c].pc = "insert"
        /\ IF spacing THEN Goto(c, "start") ELSE Finish(c)
        /\ sent' = IF Privileged(c) THEN sent ELSE [sent EXCEPT ![a] = @ + 1]
        /\ spaced' = IF spacing THEN [spaced EXCEPT ![a] = @ + 1] ELSE spaced
        /\ UNCHANGED <<channel, slow, rate, recent, orphaned, deaths>>
    BY DEF Insert, At
  <1>2. /\ a \in Accounts /\ LimitsOf(a)
        /\ sent \in [Accounts -> Nat] /\ spaced \in [Accounts -> Nat] /\ deaths \in Nat
    BY Owners, BoundAssumption DEF Limits, TypeOK
  <1>3. \A d \in Conns : d # c => req'[d] = req[d]
    BY <1>1, Went, Ended
  <1>4. \A b \in Accounts \ {a} : sent'[b] = sent[b] /\ spaced'[b] = spaced[b]
    BY <1>1, <1>2
  <1>5. LimitsOf(a)'
    <2>1. CASE a \in moderates
      <3>1. sent' = sent /\ spaced' = spaced
        BY <1>1, <2>1 DEF Privileged
      <3> QED
        BY <1>1, <1>2, <2>1, <3>1 DEF LimitsOf, channel
    <2>2. CASE a \notin moderates
      <3>1. sent'[a] = sent[a] + 1
        BY <1>1, <1>2, <2>2 DEF Privileged
      <3>2. Bit(Holds(req[c])) = 1 /\ Bit(Starts(req[c])) = 0
        BY <1>1 DEF Holds, Starts, Bit
      <3>3. ~Holds(req'[c]) /\ ~Passed(req'[c])
        <4>1. req'[c].pc \in {"start", "idle"}
          BY <1>1, Went, Ended DEF Idle
        <4> QED
          BY <4>1 DEF Holds, Passed
      <3>4. RateOf(a) /\ SlowOf(a)
        BY <1>2, <2>2 DEF LimitsOf
      <3>5. RateOf(a)'
        <4>1. Cardinality(Holding(a))' = Cardinality(Holding(a)) - 1
          BY <1>3, <3>2, <3>3, Counted, Sizes DEF Bit
        <4>2. Admitted(a)' = Admitted(a) /\ Sockets(a)' = Sockets(a)
          BY <1>1 DEF Admitted, Sockets
        <4>3. Admitted(a) \in Nat /\ sent[a] \in Nat
          BY <1>2, Admission
        <4> QED
          BY <3>1, <3>4, <4>1, <4>2, <4>3, Sizes DEF RateOf
      <3>6. SlowOf(a)'
        <4>1. Sockets(a)' = Sockets(a) /\ slow' = slow /\ deaths' = deaths
          BY <1>1 DEF Sockets
        <4>2. CASE req[c].slow
          <5>1. spaced'[a] = spaced[a] + 1
            BY <1>1, <1>2, <2>2, <4>2 DEF Privileged
          <5>2. Bit(Passed(req[c])) = 1 /\ Bit(Starts(req'[c])) = 1
            <6>1. req'[c].pc = "start"
              BY <1>1, <2>2, <4>2, Went DEF Privileged
            <6> QED
              BY <1>1, <4>2, <6>1 DEF Passed, Starts, Bit
          <5>3. /\ Cardinality(Passing(a))' = Cardinality(Passing(a)) - 1
                /\ Cardinality(Starting(a))' = Cardinality(Starting(a)) + 1
            BY <1>3, <3>2, <3>3, <5>2, Counted, Sizes DEF Bit
          <5>4. spaced[a] \in Nat
            BY <1>2
          <5> QED
            BY <1>2, <3>4, <4>1, <5>1, <5>3, <5>4, Sizes DEF SlowOf
        <4>3. CASE ~req[c].slow
          <5>1. spaced'[a] = spaced[a]
            BY <1>1, <4>3
          <5>2. Bit(Passed(req[c])) = 0 /\ Bit(Starts(req'[c])) = 0
            <6>1. req'[c] = Idle
              BY <1>1, <4>3, Ended
            <6> QED
              BY <4>3, <6>1 DEF Passed, Starts, Bit, Idle
          <5>3. /\ Cardinality(Passing(a))' = Cardinality(Passing(a))
                /\ Cardinality(Starting(a))' = Cardinality(Starting(a))
            BY <1>3, <3>2, <3>3, <5>2, Counted, Sizes DEF Bit
          <5> QED
            BY <3>4, <4>1, <5>1, <5>3 DEF SlowOf
        <4> QED
          BY <4>2, <4>3
      <3> QED
        BY <1>1, <2>2, <3>5, <3>6 DEF LimitsOf, channel
    <2> QED
      BY <2>1, <2>2
  <1> QED
    BY <1>1, <1>2, <1>3, <1>4, <1>5, Others DEF channel

LEMMA StartSlowLimits ==
  ASSUME TypeOK, Limits, NEW c \in Conns, StartSlow(c)
  PROVE  Limits'
  <1> DEFINE a == AccountOf[c]
  <1>1. /\ req[c].pc = "start" /\ Finish(c)
        /\ slow' = slow \cup {a}
        /\ UNCHANGED <<channel, rate, recent, history>>
    BY DEF StartSlow, At
  <1>2. a \in Accounts /\ LimitsOf(a) /\ deaths \in Nat
    BY Owners, BoundAssumption DEF Limits, TypeOK
  <1>3. req'[c] = Idle /\ \A d \in Conns : d # c => req'[d] = req[d]
    BY <1>1, Ended
  <1>4. LimitsOf(a)'
    <2>1. CASE a \in moderates
      BY <1>1, <1>2, <2>1 DEF LimitsOf, channel, history
    <2>2. CASE a \notin moderates
      <3>1. RateOf(a) /\ SlowOf(a)
        BY <1>2, <2>2 DEF LimitsOf
      <3>2. /\ Bit(Holds(req[c])) = 0 /\ Bit(Holds(req'[c])) = 0
            /\ Bit(Passed(req[c])) = 0 /\ Bit(Passed(req'[c])) = 0
        BY <1>1, <1>3 DEF Holds, Passed, Idle, Bit
      <3>3. /\ Cardinality(Holding(a))' = Cardinality(Holding(a))
            /\ Cardinality(Passing(a))' = Cardinality(Passing(a))
        BY <1>3, <3>2, Counted, Sizes
      <3>4. /\ Admitted(a)' = Admitted(a) /\ Sockets(a)' = Sockets(a)
            /\ sent'[a] = sent[a] /\ spaced'[a] = spaced[a] /\ deaths' = deaths
        BY <1>1 DEF Admitted, Sockets, history
      <3>5. RateOf(a)'
        BY <3>1, <3>3, <3>4 DEF RateOf
      <3>6. spaced[a] + Cardinality(Passing(a)) <= Cardinality(Sockets(a)) + deaths
        <4>1. spaced[a] \in Nat
          BY <1>2 DEF TypeOK
        <4> QED
          BY <1>2, <3>1, <4>1, Sizes DEF SlowOf
      <3>7. SlowOf(a)'
        BY <1>1, <3>3, <3>4, <3>6 DEF SlowOf
      <3> QED
        BY <1>1, <2>2, <3>5, <3>7 DEF LimitsOf, channel
    <2> QED
      BY <2>1, <2>2
  <1> QED
    BY <1>1, <1>2, <1>3, <1>4, Others DEF channel, history

LEMMA DiesLimits ==
  ASSUME TypeOK, Limits, NEW c \in Conns, Dies(c)
  PROVE  Limits'
  <1> DEFINE a == AccountOf[c]
  <1>1. /\ Finish(c) /\ deaths' = deaths + 1
        /\ UNCHANGED <<channel, slow, rate, recent, sent, spaced, posted>>
    BY DEF Dies
  <1>2. /\ a \in Accounts /\ LimitsOf(a)
        /\ deaths \in Nat /\ sent[a] \in Nat /\ spaced[a] \in Nat
    BY Owners, BoundAssumption DEF Limits, TypeOK
  <1>3. req'[c] = Idle /\ \A d \in Conns : d # c => req'[d] = req[d]
    BY <1>1, Ended
  <1>4. LimitsOf(a)'
    <2>1. CASE a \in moderates
      BY <1>1, <1>2, <2>1 DEF LimitsOf, channel
    <2>2. CASE a \notin moderates
      <3>1. RateOf(a) /\ SlowOf(a)
        BY <1>2, <2>2 DEF LimitsOf
      <3>2. /\ Bit(Holds(req'[c])) = 0 /\ Bit(Passed(req'[c])) = 0 /\ Bit(Starts(req'[c])) = 0
            /\ Bit(Holds(req[c])) \in {0, 1} /\ Bit(Passed(req[c])) \in {0, 1}
            /\ Bit(Starts(req[c])) \in {0, 1}
        BY <1>3 DEF Holds, Passed, Starts, Idle, Bit
      <3>3. /\ Cardinality(Holding(a))' \in Nat
            /\ Cardinality(Holding(a))' <= Cardinality(Holding(a))
            /\ Cardinality(Passing(a))' \in Nat
            /\ Cardinality(Passing(a))' <= Cardinality(Passing(a))
            /\ Cardinality(Starting(a))' \in Nat
            /\ Cardinality(Starting(a))' + 1 >= Cardinality(Starting(a))
        <4>1. /\ Cardinality(Holding(a))' = Cardinality(Holding(a)) - Bit(Holds(req[c]))
              /\ Cardinality(Passing(a))' = Cardinality(Passing(a)) - Bit(Passed(req[c]))
              /\ Cardinality(Starting(a))' = Cardinality(Starting(a)) - Bit(Starts(req[c]))
          BY <1>3, <3>2, Counted, Sizes
        <4>2. /\ Bit(Holds(req[c])) = 1 => Cardinality(Holding(a)) >= 1
              /\ Bit(Passed(req[c])) = 1 => Cardinality(Passing(a)) >= 1
              /\ Bit(Starts(req[c])) = 1 => Cardinality(Starting(a)) >= 1
          <5>1. /\ IsFiniteSet(Holding(a)) /\ IsFiniteSet(Passing(a)) /\ IsFiniteSet(Starting(a))
            BY Sizes
          <5>2. /\ Bit(Holds(req[c])) = 1 => c \in Holding(a)
                /\ Bit(Passed(req[c])) = 1 => c \in Passing(a)
                /\ Bit(Starts(req[c])) = 1 => c \in Starting(a)
            <6>1. /\ c \in Holding(a) <=> Holds(req[c])
                  /\ c \in Passing(a) <=> Passed(req[c])
                  /\ c \in Starting(a) <=> Starts(req[c])
              BY <1>3, Moved
            <6> QED
              BY <6>1 DEF Bit
          <5>3. /\ c \in Holding(a) => Cardinality(Holding(a)) >= 1
                /\ c \in Passing(a) => Cardinality(Passing(a)) >= 1
                /\ c \in Starting(a) => Cardinality(Starting(a)) >= 1
            BY <5>1, Tally
          <5> QED
            BY <5>2, <5>3
        <4> QED
          BY <3>2, <4>1, <4>2, Sizes
      <3>4. Admitted(a)' = Admitted(a) /\ Sockets(a)' = Sockets(a) /\ slow' = slow
            /\ sent'[a] = sent[a] /\ spaced'[a] = spaced[a]
        BY <1>1 DEF Admitted, Sockets
      <3>5. RateOf(a)'
        BY <1>2, <3>1, <3>3, <3>4, Sizes, Admission DEF RateOf
      <3>6. SlowOf(a)'
        BY <1>1, <1>2, <3>1, <3>3, <3>4, Sizes DEF SlowOf
      <3> QED
        BY <1>1, <2>2, <3>5, <3>6 DEF LimitsOf, channel
    <2> QED
      BY <2>1, <2>2
  <1> QED
    BY <1>1, <1>2, <1>3, <1>4, Others DEF channel

-----------------------------------------------------------------------------
(* What happens meanwhile: requests keep their places, and a key that runs *)
(* out takes what was counted with it.                                     *)

LEMMA Standing ==
  ASSUME TypeOK, Limits, UNCHANGED <<moderates, deaths>>,
         \A c \in Conns : req'[c].pc = req[c].pc /\ req'[c].slow = req[c].slow,
         \A a \in Accounts :
           /\ sent'[a] = 0 \/ (sent'[a] = sent[a] /\ rate'[a] = rate[a])
           /\ spaced'[a] = 0 \/ (spaced'[a] = spaced[a] /\ (a \in slow' <=> a \in slow)),
         rate' \in [Accounts -> [n : 0..(Burst + 1), expires : BOOLEAN]]
  PROVE  Limits'
  <1> SUFFICES ASSUME NEW a \in Accounts PROVE LimitsOf(a)'
    BY DEF Limits
  <1>1. /\ Sockets(a)' = Sockets(a) /\ Holding(a)' = Holding(a)
        /\ Passing(a)' = Passing(a) /\ Starting(a)' = Starting(a)
    BY DEF Sockets, Holding, Passing, Starting, Holds, Passed, Starts
  <1>2. LimitsOf(a)
    BY DEF Limits
  <1>3. CASE a \in moderates
    BY <1>2, <1>3 DEF LimitsOf
  <1>4. CASE a \notin moderates
    <2>1. RateOf(a) /\ SlowOf(a)
      BY <1>2, <1>4 DEF LimitsOf
    <2>2. RateOf(a)'
      <3>1. CASE sent'[a] = sent[a] /\ rate'[a] = rate[a]
        <4>1. Admitted(a)' = Admitted(a)
          BY <3>1 DEF Admitted
        <4> QED
          BY <1>1, <2>1, <3>1, <4>1 DEF RateOf
      <3>2. CASE sent'[a] = 0
        <4>1. Admitted(a)' \in Nat
          BY BoundAssumption DEF Admitted
        <4> QED
          BY <1>1, <3>2, <4>1, Sizes DEF RateOf
      <3> QED
        BY <3>1, <3>2
    <2>3. SlowOf(a)'
      <3>1. deaths \in Nat /\ deaths' = deaths
        BY BoundAssumption DEF TypeOK
      <3>2. CASE spaced'[a] = spaced[a] /\ (a \in slow' <=> a \in slow)
        BY <1>1, <2>1, <3>1, <3>2 DEF SlowOf
      <3>3. CASE spaced'[a] = 0
        BY <1>1, <3>1, <3>3, Sizes DEF SlowOf
      <3> QED
        BY <3>2, <3>3
    <2> QED
      BY <1>4, <2>2, <2>3 DEF LimitsOf
  <1> QED
    BY <1>3, <1>4

LEMMA ExcusedSlow ==
  ASSUME TypeOK, NEW a, NEW reason, Excuse(a, reason), NEW c \in Conns
  PROVE  req'[c].slow = req[c].slow
  <1>1. req'[c] = IF AccountOf[c] = a THEN [req[c] EXCEPT !.barred = @ \ {reason}] ELSE req[c]
    BY DEF Excuse
  <1>2. req[c] \in Requests
    BY DEF TypeOK, Requests, Places
  <1> QED
    BY <1>1, <1>2 DEF Requests

LEMMA RatesTyped == TypeOK => rate \in [Accounts -> [n : 0..(Burst + 1), expires : BOOLEAN]]
  BY DEF TypeOK

LEMMA MeanwhileLimits ==
  ASSUME TypeOK, Limits, NEW a \in Accounts,
         BanUser(a) \/ Free(a) \/ Follow(a) \/ Unfollow(a) \/ SlowEnds(a) \/ RateEnds(a)
  PROVE  Limits'
  <1>1. rate' \in [Accounts -> [n : 0..(Burst + 1), expires : BOOLEAN]]
    <2>1. CASE RateEnds(a)
      <3>1. Fresh \in [n : 0..(Burst + 1), expires : BOOLEAN]
        BY BoundAssumption DEF Fresh
      <3> QED
        BY <2>1, <3>1, RatesTyped DEF RateEnds
    <2>2. CASE ~RateEnds(a)
      BY <2>2, RatesTyped DEF BanUser, Free, Follow, Unfollow, SlowEnds
    <2> QED
      BY <2>1, <2>2
  <1>2. UNCHANGED <<moderates, deaths>>
    BY DEF BanUser, Free, Follow, Unfollow, SlowEnds, RateEnds, channel, history
  <1>3. \A c \in Conns : req'[c].pc = req[c].pc /\ req'[c].slow = req[c].slow
    <2>1. CASE Free(a)
      BY <2>1, Excused, ExcusedSlow DEF Free
    <2>2. CASE Follow(a)
      BY <2>2, Excused, ExcusedSlow DEF Follow
    <2>3. CASE BanUser(a) \/ Unfollow(a) \/ SlowEnds(a) \/ RateEnds(a)
      BY <2>3 DEF BanUser, Unfollow, SlowEnds, RateEnds
    <2> QED
      BY <2>1, <2>2, <2>3
  <1>4. \A b \in Accounts : sent'[b] = 0 \/ (sent'[b] = sent[b] /\ rate'[b] = rate[b])
    <2>1. CASE RateEnds(a)
      BY <2>1 DEF RateEnds, TypeOK
    <2>2. CASE ~RateEnds(a)
      BY <2>2 DEF BanUser, Free, Follow, Unfollow, SlowEnds, history
    <2> QED
      BY <2>1, <2>2
  <1>5. \A b \in Accounts :
          spaced'[b] = 0 \/ (spaced'[b] = spaced[b] /\ (b \in slow' <=> b \in slow))
    <2>1. CASE SlowEnds(a)
      BY <2>1 DEF SlowEnds, TypeOK
    <2>2. CASE ~SlowEnds(a)
      BY <2>2 DEF BanUser, Free, Follow, Unfollow, RateEnds, history
    <2> QED
      BY <2>1, <2>2
  <1> QED
    BY <1>1, <1>2, <1>3, <1>4, <1>5, Standing

LEMMA LimitsNext == TypeOK /\ Limits /\ [Next]_vars => Limits'
  <1> SUFFICES ASSUME TypeOK, Limits, [Next]_vars PROVE Limits'
    OBVIOUS
  <1>1. CASE UNCHANGED vars
    BY <1>1, RatesTyped, Standing DEF vars
  <1>2. ASSUME NEW c \in Conns, Load(c) \/ SendStep(c) \/ Dies(c) PROVE Limits'
    BY <1>2, LoadLimits, CheckLimits, TakeTokenLimits, HeldLimits, InsertLimits, StartSlowLimits,
       DiesLimits DEF SendStep
  <1>3. ASSUME NEW a \in Accounts,
               BanUser(a) \/ Free(a) \/ Follow(a) \/ Unfollow(a) \/ SlowEnds(a) \/ RateEnds(a)
        PROVE  Limits'
    BY <1>3, MeanwhileLimits
  <1>4. ASSUME NEW k, DuplicateEnds(k) PROVE Limits'
    BY <1>4, RatesTyped, Standing DEF DuplicateEnds, channel
  <1> QED
    BY <1>1, <1>2, <1>3, <1>4 DEF Next

LEMMA LimitsInvariant == Spec => [](TypeOK /\ Limits)
  BY LimitsInit, LimitsNext, TypeCorrect, PTL DEF Spec

-----------------------------------------------------------------------------
(* In one window an account gets a burst through, and what was on its way  *)
(* from its other sockets, however the counter, the messages and the end   *)
(* of the window interleave (RateHolds).                                   *)
THEOREM RateAlwaysHolds == Spec => []RateHolds
  <1>1. TypeOK /\ Limits => RateHolds
    <2> SUFFICES ASSUME TypeOK, Limits, NEW a \in Accounts
                 PROVE  sent[a] <= Burst + Cardinality(Sockets(a))
      BY DEF RateHolds
    <2>1. /\ sent[a] \in Nat /\ Burst \in Nat
          /\ Admitted(a) \in Nat /\ Admitted(a) <= Burst
      BY BoundAssumption, Admission DEF TypeOK
    <2>2. CASE a \in moderates
      BY <2>1, <2>2, Sizes DEF Limits, LimitsOf
    <2>3. CASE a \notin moderates
      BY <2>1, <2>3, Sizes DEF Limits, LimitsOf, RateOf
    <2> QED
      BY <2>2, <2>3
  <1> QED
    BY <1>1, LimitsInvariant, PTL

(* In one slow-mode window an account gets through a message per socket,   *)
(* and one for every handler that died before it started the window        *)
(* (SlowModeHolds).                                                        *)
THEOREM SlowModeAlwaysHolds == Spec => []SlowModeHolds
  <1>1. TypeOK /\ Limits => SlowModeHolds
    <2> SUFFICES ASSUME TypeOK, Limits, NEW a \in Accounts
                 PROVE  spaced[a] <= Cardinality(Sockets(a)) + deaths
      BY DEF SlowModeHolds
    <2>1. spaced[a] \in Nat /\ deaths \in Nat
      BY BoundAssumption DEF TypeOK
    <2>2. CASE a \in moderates
      BY <2>1, <2>2, Sizes DEF Limits, LimitsOf
    <2>3. CASE a \notin moderates
      BY <2>1, <2>3, Sizes DEF Limits, LimitsOf, SlowOf
    <2> QED
      BY <2>2, <2>3
  <1> QED
    BY <1>1, LimitsInvariant, PTL
=============================================================================
