--------------------------- MODULE Reactions_proofs ---------------------------
(***************************************************************************)
(* Two facts about reactions for any accounts, sockets, messages, emojis   *)
(* and tasks, whichever flushes fail.                                      *)
(*                                                                         *)
(* The cap (CapWithinConnections): an account's reactions of a message,    *)
(* with the inserts its sockets have under way, are never more than the    *)
(* cap and one less than its sockets (Bounded): a socket that counts       *)
(* finds less than the cap, and is the only one it adds.                   *)
(*                                                                         *)
(* The counts (ShownIsCounted): at most one flush task is at work (OneTask) *)
(* and the counts it holds are those of the message, unless a change has   *)
(* marked the message again (Fresh).                                       *)
(***************************************************************************)
EXTENDS Reactions, FiniteSetTheorems, TLAPS

Tallies == [Emojis -> 0..Cardinality(Accounts)]

ConnType ==
  [pc : {"idle", "counting", "inserting", "removing", "marking"},
   message : Messages \cup {NoMessage}, emoji : Emojis \cup {NoEmoji}]

TaskType ==
  [pc : {"done", "sleeping", "flushing"}, ids : SUBSET Messages,
   at : Messages \cup {NoMessage}, counts : Tallies]

(* What a socket at each point of a toggle is about *)
Aimed(x) ==
  /\ x.pc \in {"counting", "inserting", "removing"} => x.message \in Messages /\ x.emoji \in Emojis
  /\ x.pc = "marking" => x.message \in Messages

Typed ==
  /\ rows \subseteq Rows /\ dirty \subseteq Messages
  /\ conn \in [Conns -> ConnType]
  /\ \A c \in Conns : Aimed(conn[c])
  /\ task \in [Flushers -> TaskType]
  /\ current \in Flushers /\ shown \in [Messages -> Tallies \cup {Untold}]

Mine(a) == {c \in Conns : AccountOf[c] = a}

Inserting(m, a) == {c \in Mine(a) : conn[c].pc = "inserting" /\ conn[c].message = m}

Owned == \A r \in rows : \E c \in Conns : AccountOf[c] = r[2]

Bounded ==
  \A m \in Messages, a \in Accounts : Mine(a) # {} =>
    Cardinality(Of(m, a)) + Cardinality(Inserting(m, a)) <= Cap + Cardinality(Mine(a)) - 1

CapInv == Typed /\ IsFiniteSet(rows) /\ Owned /\ Bounded

-----------------------------------------------------------------------------
LEMMA CountsAreTallies ==
  ASSUME Typed, NEW m \in Messages
  PROVE  Counts(m) \in Tallies
<1> SUFFICES ASSUME NEW e \in Emojis
             PROVE  Cardinality({r \in rows : r[1] = m /\ r[3] = e}) \in 0..Cardinality(Accounts)
  BY DEF Counts, CountsIn, Tallies
<1>1. PICK R : R = {r \in rows : r[1] = m /\ r[3] = e}  OBVIOUS
<1>2. PICK g : g = [r \in R |-> r[2]]  OBVIOUS
<1>3. g \in Injection(R, Accounts)
  <2>1. \A r \in R : r \in Rows /\ r[1] = m /\ r[3] = e  BY <1>1 DEF Typed
  <2>2. \A r \in R : r[2] \in Accounts /\ r = <<m, r[2], e>>  BY <2>1 DEF Rows
  <2>3. g \in [R -> Accounts] /\ \A r \in R : g[r] = r[2]  BY <1>2, <2>2
  <2>4. \A r, q \in R : g[r] = g[q] => r = q  BY <2>2, <2>3
  <2>5. IsInjective(g)  BY <2>3, <2>4 DEF IsInjective
  <2> QED  BY <2>3, <2>5 DEF Injection
<1>4. IsFiniteSet(R) /\ Cardinality(R) <= Cardinality(Accounts)  BY <1>3, FinitenessAssumption, FS_Injection
<1>5. Cardinality(R) \in Nat /\ Cardinality(Accounts) \in Nat  BY <1>4, FinitenessAssumption, FS_CardinalityType
<1> QED  BY <1>1, <1>4, <1>5

LEMMA NoneIsTallies == None \in Tallies
<1>1. Cardinality(Accounts) \in Nat  BY FinitenessAssumption, FS_CardinalityType
<1> QED  BY <1>1 DEF None, Tallies

LEMMA Records ==
  /\ Resting \in ConnType /\ Resting.pc = "idle"
  /\ \A m \in Messages : ToMark(m) \in ConnType /\ ToMark(m).pc = "marking" /\ ToMark(m).message = m
  /\ Done \in TaskType /\ Done.pc = "done" /\ Done.ids = {} /\ Done.at = NoMessage
  /\ Sleeping \in TaskType /\ Sleeping.pc = "sleeping" /\ Sleeping.ids = {} /\ Sleeping.at = NoMessage
<1>1. Resting \in ConnType /\ Resting.pc = "idle"  BY DEF Resting, ConnType
<1>2. \A m \in Messages : ToMark(m) \in ConnType /\ ToMark(m).pc = "marking" /\ ToMark(m).message = m
  BY DEF ToMark, ConnType
<1>3. Done \in TaskType /\ Done.pc = "done" /\ Done.ids = {} /\ Done.at = NoMessage
  BY NoneIsTallies DEF Done, TaskType
<1>4. Sleeping \in TaskType /\ Sleeping.pc = "sleeping" /\ Sleeping.ids = {} /\ Sleeping.at = NoMessage
  BY <1>3 DEF Sleeping, TaskType
<1> QED  BY <1>1, <1>2, <1>3, <1>4

LEMMA InitTyped == Init => Typed
<1> SUFFICES ASSUME Init PROVE Typed  OBVIOUS
<1>1. conn \in [Conns -> ConnType] /\ \A c \in Conns : conn[c] = Resting  BY Records DEF Init
<1>2. \A c \in Conns : Aimed(conn[c])  BY <1>1, Records DEF Aimed
<1>3. task \in [Flushers -> TaskType]  BY Records DEF Init
<1>4. shown \in [Messages -> Tallies \cup {Untold}]  BY NoneIsTallies DEF Init
<1> QED  BY <1>1, <1>2, <1>3, <1>4 DEF Init, Typed

LEMMA Reacts ==
  ASSUME NEW c \in Conns, React(c)
  PROVE  \E x \in ConnType : Aimed(x) /\ x.pc # "inserting" /\ conn' = [conn EXCEPT ![c] = x]
<1>1. PICK m \in Messages, e \in Emojis, on \in BOOLEAN :
        conn' = [conn EXCEPT ![c] =
                   CASE on /\ ~(<<m, AccountOf[c], e>> \in rows) -> [pc |-> "counting", message |-> m, emoji |-> e]
                     [] ~on /\ <<m, AccountOf[c], e>> \in rows   -> [pc |-> "removing", message |-> m, emoji |-> e]
                     [] OTHER -> ToMark(m)]
  BY DEF React
<1>2. \A p \in {"counting", "removing"} :
        [pc |-> p, message |-> m, emoji |-> e] \in ConnType /\ Aimed([pc |-> p, message |-> m, emoji |-> e])
  BY DEF ConnType, Aimed
<1>3. ToMark(m) \in ConnType /\ ToMark(m).pc = "marking" /\ Aimed(ToMark(m))  BY Records DEF Aimed
<1>4. CASE conn' = [conn EXCEPT ![c] = ToMark(m)]  BY <1>3, <1>4
<1>5. ASSUME NEW p \in {"counting", "removing"}, conn' = [conn EXCEPT ![c] = [pc |-> p, message |-> m, emoji |-> e]]
      PROVE  \E x \in ConnType : Aimed(x) /\ x.pc # "inserting" /\ conn' = [conn EXCEPT ![c] = x]
  BY <1>2, <1>5
<1> QED  BY <1>1, <1>4, <1>5

LEMMA TypedNext == ASSUME Typed, [Next]_vars PROVE Typed'
<1> USE DEF Typed
<1>1. ASSUME NEW c \in Conns, NEW x \in ConnType, Aimed(x), conn' = [conn EXCEPT ![c] = x]
      PROVE  conn' \in [Conns -> ConnType] /\ \A q \in Conns : Aimed(conn'[q])
  BY <1>1
<1>2. ASSUME NEW c \in Conns, Rest(c)
      PROVE  conn' \in [Conns -> ConnType] /\ \A q \in Conns : Aimed(conn'[q])
  BY <1>1, <1>2, Records DEF Rest, Aimed
<1>3. \A m \in Messages : ToMark(m) \in ConnType /\ Aimed(ToMark(m))  BY Records DEF Aimed
<1>4. ASSUME NEW f \in Flushers, NEW x \in TaskType, task' = [task EXCEPT ![f] = x]
      PROVE  task' \in [Flushers -> TaskType]
  BY <1>4
<1>5. CASE UNCHANGED vars  BY <1>5 DEF vars, Aimed
<1>6. ASSUME NEW c \in Conns, React(c) PROVE Typed'
  <2>1. PICK x \in ConnType : Aimed(x) /\ conn' = [conn EXCEPT ![c] = x]  BY <1>6, Reacts
  <2> QED  BY <1>1, <1>6, <2>1 DEF React
<1>7. ASSUME NEW c \in Conns, CountHave(c) PROVE Typed'
  <2>1. CASE Rest(c)  BY <1>2, <1>7, <2>1 DEF CountHave
  <2>2. CASE conn' = [conn EXCEPT ![c].pc = "inserting"]
    <3>1. PICK x : x = [conn[c] EXCEPT !.pc = "inserting"]  OBVIOUS
    <3>2. x \in ConnType /\ x.message = conn[c].message /\ x.emoji = conn[c].emoji /\ x.pc = "inserting"
      BY <3>1 DEF ConnType
    <3>3. Aimed(x)  BY <3>2, <1>7 DEF CountHave, Aimed
    <3>4. conn' = [conn EXCEPT ![c] = x]  BY <2>2, <3>1
    <3> QED  BY <1>1, <1>7, <3>2, <3>3, <3>4 DEF CountHave
  <2> QED  BY <1>7, <2>1, <2>2 DEF CountHave
<1>8. ASSUME NEW c \in Conns, Insert(c) PROVE Typed'
  <2>1. conn[c].message \in Messages /\ conn[c].emoji \in Emojis  BY <1>8 DEF Insert, Aimed
  <2>2. Target(c) \in Rows  BY <2>1, ConnAssumption DEF Target, Rows
  <2>3. rows' \subseteq Rows  BY <1>8, <2>2 DEF Insert
  <2>4. conn' = [conn EXCEPT ![c] = ToMark(conn[c].message)] \/ Rest(c)  BY <1>8 DEF Insert
  <2>5. conn' \in [Conns -> ConnType] /\ \A q \in Conns : Aimed(conn'[q])  BY <1>1, <1>2, <1>3, <2>1, <2>4
  <2> QED  BY <1>8, <2>3, <2>5 DEF Insert
<1>9. ASSUME NEW c \in Conns, Remove(c) PROVE Typed'
  <2>1. \A q \in Conns : conn'[q] = conn[q] \/ (conn[q].pc = "removing" /\ conn'[q] = ToMark(conn[q].message))
    BY <1>9 DEF Remove
  <2>2. \A q \in Conns : conn'[q] \in ConnType /\ Aimed(conn'[q])  BY <2>1, <1>3 DEF Aimed
  <2>3. conn' = [q \in Conns |-> conn'[q]]  BY <1>9 DEF Remove
  <2> QED  BY <1>9, <2>2, <2>3 DEF Remove
<1>10. ASSUME NEW c \in Conns, Mark(c) PROVE Typed'
  <2>1. conn[c].message \in Messages  BY <1>10 DEF Mark, Aimed
  <2>2. task' \in [Flushers -> TaskType] /\ current' \in Flushers  BY <1>4, <1>10, Records DEF Mark
  <2> QED  BY <1>2, <1>10, <2>1, <2>2 DEF Mark
<1>11. ASSUME NEW f \in Flushers, Pop(f) PROVE Typed'
  <2>1. PICK x : x = [task[f] EXCEPT !.pc = "flushing", !.ids = dirty]  OBVIOUS
  <2>2. x \in TaskType  BY <2>1 DEF TaskType
  <2>3. task' = [task EXCEPT ![f] = x]  BY <2>1, <1>11 DEF Pop
  <2> QED  BY <1>4, <1>11, <2>2, <2>3 DEF Pop
<1>12. ASSUME NEW f \in Flushers, ReadCounts(f) PROVE Typed'
  <2>1. PICK m \in task[f].ids : task' = [task EXCEPT ![f].at = m, ![f].counts = Counts(m)]  BY <1>12 DEF ReadCounts
  <2>2. m \in Messages  BY DEF TaskType
  <2>3. PICK k \in Tallies : k = Counts(m)  BY <2>2, CountsAreTallies
  <2>4. PICK x : x = [task[f] EXCEPT !.at = m, !.counts = k]  OBVIOUS
  <2>5. x \in TaskType  BY <2>2, <2>4 DEF TaskType
  <2>6. task' = [task EXCEPT ![f] = x]  BY <2>1, <2>3, <2>4
  <2> QED  BY <1>4, <1>12, <2>5, <2>6 DEF ReadCounts
<1>13. ASSUME NEW f \in Flushers, Publish(f) PROVE Typed'
  <2>1. PICK x : x = [Done EXCEPT !.pc = "flushing", !.ids = task[f].ids \ {task[f].at}]  OBVIOUS
  <2>2. x \in TaskType  BY <2>1, Records DEF TaskType
  <2>3. task' = [task EXCEPT ![f] = x]  BY <2>1, <1>13 DEF Publish
  <2>4. task[f].counts \in Tallies  BY DEF TaskType
  <2> QED  BY <1>4, <1>13, <2>2, <2>3, <2>4 DEF Publish
<1>14. ASSUME NEW f \in Flushers, Finish(f) PROVE Typed'  BY <1>4, <1>14, Records DEF Finish
<1>15. ASSUME NEW f \in Flushers, FlushFails(f) PROVE Typed'  BY <1>4, <1>15, Records DEF FlushFails
<1> QED
  BY <1>5, <1>6, <1>7, <1>8, <1>9, <1>10, <1>11, <1>12, <1>13, <1>14, <1>15 DEF Next, ToggleStep, FlushStep

LEMMA AlwaysTyped == Spec => []Typed
BY InitTyped, TypedNext, PTL DEF Spec

(* The rows of message_reactions, the toggles and what the batcher holds     *)
(* keep their types; no emoji counts more reactions than there are accounts. *)
THEOREM TypeCorrect == Spec => []TypeOK
<1>1. ASSUME Typed PROVE TypeOK
  <2>1. \A c \in Conns : conn[c].pc \in {"counting", "inserting", "removing"} => Target(c) \in Rows
    BY <1>1, ConnAssumption DEF Typed, Aimed, Target, Rows
  <2> QED  BY <1>1, <2>1 DEF Typed, TypeOK, Aimed, ConnType, TaskType, Tallies
<1> QED  BY <1>1, AlwaysTyped, PTL

-----------------------------------------------------------------------------
(* The cap *)

(* Cardinalities are numbers that follow inclusions. *)
LEMMA Sizes ==
  ASSUME IsFiniteSet(rows), NEW m, NEW a
  PROVE  /\ IsFiniteSet(Of(m, a)) /\ Cardinality(Of(m, a)) \in Nat
         /\ IsFiniteSet(Mine(a)) /\ Cardinality(Mine(a)) \in Nat
         /\ IsFiniteSet(Inserting(m, a)) /\ Cardinality(Inserting(m, a)) \in Nat
         /\ Cardinality(Inserting(m, a)) <= Cardinality(Mine(a))
<1>1. IsFiniteSet(Of(m, a))  BY FS_Subset DEF Of
<1>2. IsFiniteSet(Mine(a))  BY FS_Subset, FinitenessAssumption DEF Mine
<1>3. Inserting(m, a) \subseteq Mine(a)  BY DEF Inserting
<1>4. IsFiniteSet(Inserting(m, a)) /\ Cardinality(Inserting(m, a)) <= Cardinality(Mine(a))  BY <1>2, <1>3, FS_Subset
<1> QED  BY <1>1, <1>2, <1>4, FS_CardinalityType

LEMMA InitCapInv == Init => CapInv
<1> SUFFICES ASSUME Init PROVE CapInv  OBVIOUS
<1>1. rows = {} /\ IsFiniteSet(rows)  BY FS_EmptySet DEF Init
<1>2. \A c \in Conns : conn[c].pc = "idle"  BY Records DEF Init
<1>3. Bounded
  <2> SUFFICES ASSUME NEW m \in Messages, NEW a \in Accounts, Mine(a) # {}
               PROVE  Cardinality(Of(m, a)) + Cardinality(Inserting(m, a)) <= Cap + Cardinality(Mine(a)) - 1
    BY DEF Bounded
  <2>1. Of(m, a) = {} /\ Inserting(m, a) = {}  BY <1>1, <1>2 DEF Of, Inserting, Mine
  <2>2. Cardinality(Of(m, a)) = 0 /\ Cardinality(Inserting(m, a)) = 0  BY <2>1, FS_EmptySet
  <2>3. Cardinality(Mine(a)) \in Nat /\ Cardinality(Mine(a)) # 0  BY <1>1, Sizes, FS_EmptySet
  <2> QED  BY <2>2, <2>3, BoundAssumption
<1> QED  BY <1>1, <1>3, InitTyped DEF CapInv, Owned

(* A step that adds no row and no insert *)
LEMMA Shrinks ==
  ASSUME CapInv, Typed', rows' \subseteq rows,
         \A c \in Conns : conn'[c].pc = "inserting" => conn'[c] = conn[c]
  PROVE  CapInv'
<1>1. IsFiniteSet(rows) /\ IsFiniteSet(rows')  BY FS_Subset DEF CapInv
<1>2. Owned'  BY DEF CapInv, Owned
<1>3. Bounded'
  <2> SUFFICES ASSUME NEW m \in Messages, NEW a \in Accounts, Mine(a) # {}
               PROVE  Cardinality(Of(m, a)') + Cardinality(Inserting(m, a)') <= Cap + Cardinality(Mine(a)) - 1
    BY DEF Bounded, Mine
  <2>1. Of(m, a)' \subseteq Of(m, a)  BY DEF Of
  <2>2. Inserting(m, a)' \subseteq Inserting(m, a)  BY DEF Inserting, Mine
  <2>3. Cardinality(Of(m, a)') <= Cardinality(Of(m, a)) /\ Cardinality(Of(m, a)') \in Nat
    BY <1>1, <2>1, Sizes, FS_Subset, FS_CardinalityType
  <2>4. Cardinality(Inserting(m, a)') <= Cardinality(Inserting(m, a)) /\ Cardinality(Inserting(m, a)') \in Nat
    BY <1>1, <2>2, Sizes, FS_Subset, FS_CardinalityType
  <2>5. Cardinality(Of(m, a)) + Cardinality(Inserting(m, a)) <= Cap + Cardinality(Mine(a)) - 1
    BY DEF CapInv, Bounded
  <2> QED  BY <2>3, <2>4, <2>5, <1>1, Sizes, BoundAssumption
<1> QED  BY <1>1, <1>2, <1>3 DEF CapInv

(* A socket that counted less than the cap: with every socket of the        *)
(* account inserting at once the bound still holds.                         *)
LEMMA CountHaveKeeps ==
  ASSUME CapInv, Typed', NEW c \in Conns, CountHave(c), ~Rest(c)
  PROVE  CapInv'
<1>1. /\ Cardinality(Of(conn[c].message, AccountOf[c])) < Cap
      /\ conn' = [conn EXCEPT ![c].pc = "inserting"] /\ rows' = rows
  <2>1. ~(Cardinality(Of(conn[c].message, AccountOf[c])) >= Cap)
        /\ conn' = [conn EXCEPT ![c].pc = "inserting"] /\ rows' = rows
    BY DEF CountHave
  <2>2. Cardinality(Of(conn[c].message, AccountOf[c])) \in Nat  BY Sizes DEF CapInv
  <2> QED  BY <2>1, <2>2, BoundAssumption
<1>2. IsFiniteSet(rows)  BY DEF CapInv
<1>3. \A q \in Conns \ {c} : conn'[q] = conn[q]  BY <1>1 DEF CapInv, Typed
<1>4. conn'[c].message = conn[c].message  BY <1>1 DEF CapInv, Typed, ConnType
<1>5. Bounded'
  <2> SUFFICES ASSUME NEW m \in Messages, NEW a \in Accounts, Mine(a) # {}
               PROVE  Cardinality(Of(m, a)) + Cardinality(Inserting(m, a)') <= Cap + Cardinality(Mine(a)) - 1
    BY <1>1 DEF Bounded, Mine, Of
  <2>1. CASE a = AccountOf[c] /\ m = conn[c].message
    <3>1. Inserting(m, a)' \subseteq Mine(a)  BY DEF Inserting, Mine
    <3>2. Cardinality(Inserting(m, a)') <= Cardinality(Mine(a)) /\ Cardinality(Inserting(m, a)') \in Nat
      BY <1>2, <3>1, Sizes, FS_Subset, FS_CardinalityType
    <3>3. Cardinality(Of(m, a)) < Cap  BY <1>1, <2>1
    <3> QED  BY <3>2, <3>3, <1>2, Sizes, BoundAssumption
  <2>2. CASE ~(a = AccountOf[c] /\ m = conn[c].message)
    <3>1. Inserting(m, a)' = Inserting(m, a)  BY <2>2, <1>3, <1>4 DEF Inserting, Mine, CountHave
    <3> QED  BY <3>1 DEF CapInv, Bounded
  <2> QED  BY <2>1, <2>2
<1> QED  BY <1>1, <1>5 DEF CapInv, Owned

(* The insert that was under way is a row now. *)
LEMMA InsertKeeps ==
  ASSUME CapInv, Typed', NEW c \in Conns, Insert(c), Target(c) \notin rows
  PROVE  CapInv'
<1>1. PICK m0, a0, t : m0 = conn[c].message /\ a0 = AccountOf[c] /\ t = Target(c)  OBVIOUS
<1>2. /\ rows' = rows \cup {t} /\ conn' = [conn EXCEPT ![c] = ToMark(m0)] /\ t \notin rows
      /\ t[1] = m0 /\ t[2] = a0 /\ conn[c].pc = "inserting"
  BY <1>1 DEF Insert, Target
<1>3. IsFiniteSet(rows) /\ IsFiniteSet(rows')  BY <1>2, FS_AddElement DEF CapInv
<1>4. \A q \in Conns \ {c} : conn'[q] = conn[q]  BY <1>2 DEF CapInv, Typed
<1>5. conn'[c].pc = "marking"  BY <1>2 DEF CapInv, Typed, ToMark
<1>6. Owned'  BY <1>1, <1>2 DEF CapInv, Owned
<1>7. Bounded'
  <2> SUFFICES ASSUME NEW m \in Messages, NEW a \in Accounts, Mine(a) # {}
               PROVE  Cardinality(Of(m, a)') + Cardinality(Inserting(m, a)') <= Cap + Cardinality(Mine(a)) - 1
    BY DEF Bounded, Mine
  <2>0. Cardinality(Of(m, a)) + Cardinality(Inserting(m, a)) <= Cap + Cardinality(Mine(a)) - 1
    BY DEF CapInv, Bounded
  <2>1. CASE a = a0 /\ m = m0
    <3>1. Of(m, a)' = Of(m, a) \cup {t} /\ t \notin Of(m, a)  BY <1>2, <2>1 DEF Of
    <3>2. Cardinality(Of(m, a)') = Cardinality(Of(m, a)) + 1  BY <3>1, <1>3, Sizes, FS_AddElement
    <3>3. Inserting(m, a)' = Inserting(m, a) \ {c} /\ c \in Inserting(m, a)
      BY <1>1, <1>2, <1>4, <1>5, <2>1 DEF Inserting, Mine
    <3>4. Cardinality(Inserting(m, a)') = Cardinality(Inserting(m, a)) - 1  BY ZenonT(30), <3>3, <1>3, Sizes, FS_RemoveElement
    <3> QED  BY <2>0, <3>2, <3>4, <1>3, Sizes, BoundAssumption
  <2>2. CASE ~(a = a0 /\ m = m0)
    <3>1. Of(m, a)' = Of(m, a)  BY <1>2, <2>2 DEF Of
    <3>2. Inserting(m, a)' = Inserting(m, a)  BY <1>1, <1>4, <1>5, <2>2 DEF Inserting, Mine
    <3> QED  BY <2>0, <3>1, <3>2
  <2> QED  BY <2>1, <2>2
<1> QED  BY <1>3, <1>6, <1>7 DEF CapInv

LEMMA CapInvNext == ASSUME CapInv, [Next]_vars PROVE CapInv'
<1>0. Typed /\ Typed'  BY TypedNext DEF CapInv
<1>1. ASSUME NEW c \in Conns, Rest(c) PROVE \A q \in Conns : conn'[q].pc = "inserting" => conn'[q] = conn[q]
  BY <1>0, <1>1, Records DEF Rest, Typed
<1>2. CASE UNCHANGED vars  BY <1>0, <1>2, Shrinks DEF vars
<1>3. ASSUME NEW c \in Conns, React(c) PROVE CapInv'
  <2>1. PICK x \in ConnType : x.pc # "inserting" /\ conn' = [conn EXCEPT ![c] = x]  BY <1>0, <1>3, Reacts
  <2>4. \A q \in Conns : conn'[q].pc = "inserting" => conn'[q] = conn[q]  BY <1>0, <2>1 DEF Typed
  <2>5. rows' = rows  BY <1>3 DEF React
  <2> QED  BY <1>0, <2>4, <2>5, Shrinks
<1>4. ASSUME NEW c \in Conns, CountHave(c) PROVE CapInv'
  BY <1>0, <1>1, <1>4, Shrinks, CountHaveKeeps DEF CountHave
<1>5. ASSUME NEW c \in Conns, Insert(c) PROVE CapInv'
  <2>1. CASE Target(c) \in rows  BY <1>0, <1>1, <1>5, <2>1, Shrinks DEF Insert
  <2>2. CASE Target(c) \notin rows  BY <1>0, <1>5, <2>2, InsertKeeps
  <2> QED  BY <2>1, <2>2
<1>6. ASSUME NEW c \in Conns, Remove(c) PROVE CapInv'
  <2>1. \A q \in Conns : conn'[q] = conn[q] \/ (conn[q].pc = "removing" /\ conn'[q] = ToMark(conn[q].message))
    BY <1>6 DEF Remove
  <2>2. \A q \in Conns : conn'[q].pc = "inserting" => conn'[q] = conn[q]  BY <2>1, <1>0, Records DEF Typed, Aimed
  <2>3. rows' \subseteq rows  BY <1>6 DEF Remove
  <2> QED  BY <1>0, <2>2, <2>3, Shrinks
<1>7. ASSUME NEW c \in Conns, Mark(c) PROVE CapInv'  BY <1>0, <1>1, <1>7, Shrinks DEF Mark
<1>8. ASSUME NEW f \in Flushers, FlushStep(f) \/ FlushFails(f) PROVE CapInv'
  <2>1. rows' = rows /\ conn' = conn  BY <1>8 DEF FlushStep, FlushFails, Pop, ReadCounts, Publish, Finish
  <2> QED  BY <1>0, <2>1, Shrinks
<1> QED  BY <1>2, <1>3, <1>4, <1>5, <1>6, <1>7, <1>8 DEF Next, ToggleStep

(* An account goes over MAX_PER_USER_PER_MESSAGE by less than its sockets,   *)
(* however their toggles interleave: the count and the insert of toggle are *)
(* two calls, and each socket has one toggle under way.                     *)
THEOREM CapAlwaysBounded == Spec => []CapWithinConnections
<1>1. ASSUME CapInv PROVE CapWithinConnections
  <2> SUFFICES ASSUME NEW m \in Messages, NEW a \in Accounts
               PROVE  Cardinality(Of(m, a)) <= Cap + (IF Mine(a) = {} THEN 0 ELSE Cardinality(Mine(a)) - 1)
    BY DEF CapWithinConnections, Mine
  <2>1. IsFiniteSet(rows)  BY <1>1 DEF CapInv
  <2>2. CASE Mine(a) = {}
    <3>1. Of(m, a) = {}  BY <1>1, <2>2 DEF CapInv, Owned, Of, Mine
    <3>2. Cardinality(Of(m, a)) = 0  BY <3>1, FS_EmptySet
    <3> QED  BY <2>2, <3>2, BoundAssumption
  <2>3. CASE Mine(a) # {}
    <3>1. Cardinality(Of(m, a)) + Cardinality(Inserting(m, a)) <= Cap + Cardinality(Mine(a)) - 1
      BY <1>1, <2>3 DEF CapInv, Bounded
    <3> QED  BY <2>1, <2>3, <3>1, Sizes, BoundAssumption
  <2> QED  BY <2>2, <2>3
<1>2. Spec => []CapInv  BY InitCapInv, CapInvNext, PTL DEF Spec
<1> QED  BY <1>1, <1>2, PTL

-----------------------------------------------------------------------------
(* The counts *)

Marked(m) == m \in dirty \/ \E c \in Conns : conn[c].pc = "marking" /\ conn[c].message = m

(* Only the latest task is at work, and only a flush holds messages. *)
OneTask ==
  \A f \in Flushers :
    /\ f # current => task[f].pc = "done"
    /\ task[f].pc # "flushing" => task[f].ids = {} /\ task[f].at = NoMessage
    /\ task[f].at # NoMessage => task[f].at \in task[f].ids

Fresh ==
  \A m \in Messages : ~Marked(m) =>
    /\ \A f \in Flushers : task[f].at = m => task[f].counts = Counts(m)
    /\ (\A f \in Flushers : m \notin task[f].ids) => shown[m] \in {Counts(m), Untold}

CountInv == Typed /\ OneTask /\ Fresh

LEMMA InitCountInv == Init => CountInv
<1> SUFFICES ASSUME Init PROVE CountInv  OBVIOUS
<1>1. rows = {} /\ \A f \in Flushers : task[f] = Done  BY DEF Init
<1>2. OneTask  BY <1>1, Records DEF OneTask
<1>3. \A m \in Messages : Counts(m) = None
  <2> SUFFICES ASSUME NEW m \in Messages, NEW e \in Emojis
               PROVE  Cardinality({r \in rows : r[1] = m /\ r[3] = e}) = 0
    BY DEF Counts, CountsIn, None
  <2>1. {r \in rows : r[1] = m /\ r[3] = e} = {}  BY <1>1
  <2> QED  BY <2>1, FS_EmptySet
<1>4. \A m \in Messages : shown[m] = None  BY DEF Init
<1>5. Fresh  BY <1>1, <1>3, <1>4, Records, NamesAssumption DEF Fresh
<1> QED  BY <1>2, <1>5, InitTyped DEF CountInv

(* The rows of one message are no matter for the counts of another. *)
LEMMA OtherRows ==
  ASSUME NEW t, rows' = rows \cup {t} \/ rows' = rows \ {t}, NEW m, t[1] # m
  PROVE  Counts(m)' = Counts(m)
<1>1. \A e : {r \in rows' : r[1] = m /\ r[3] = e} = {r \in rows : r[1] = m /\ r[3] = e}  OBVIOUS
<1> QED  BY <1>1 DEF Counts, CountsIn

(* A step of a toggle: what it changes it marks. *)
LEMMA TogglesMark ==
  ASSUME CountInv, Typed', UNCHANGED <<dirty, task, current, shown>>,
         \A c \in Conns : conn[c].pc = "marking" => conn'[c] = conn[c],
         \A m \in Messages : Counts(m)' = Counts(m) \/ Marked(m)'
  PROVE  CountInv'
<1>1. \A m \in Messages : Marked(m) => Marked(m)'  BY DEF Marked
<1>2. OneTask'  BY DEF CountInv, OneTask
<1>3. Fresh'
  <2> SUFFICES ASSUME NEW m \in Messages, ~Marked(m)'
               PROVE  /\ \A f \in Flushers : task'[f].at = m => task'[f].counts = Counts(m)'
                      /\ (\A f \in Flushers : m \notin task'[f].ids) => shown'[m] \in {Counts(m)', Untold}
    BY DEF Fresh
  <2>1. ~Marked(m) /\ Counts(m)' = Counts(m)  BY <1>1
  <2> QED  BY <2>1 DEF CountInv, Fresh
<1> QED  BY <1>2, <1>3 DEF CountInv

LEMMA ReactMarks == ASSUME CountInv, Typed', NEW c \in Conns, React(c) \/ CountHave(c) PROVE CountInv'
<1>1. UNCHANGED <<rows, dirty, task, current, shown>> /\ conn[c].pc \in {"idle", "counting"}  BY DEF React, CountHave
<1>2. \A q \in Conns \ {c} : conn'[q] = conn[q]  BY DEF React, CountHave, Rest, CountInv, Typed
<1>3. \A q \in Conns : conn[q].pc = "marking" => conn'[q] = conn[q]  BY <1>1, <1>2
<1>4. \A m \in Messages : Counts(m)' = Counts(m)  BY <1>1 DEF Counts, CountsIn
<1> QED  BY <1>1, <1>3, <1>4, TogglesMark

LEMMA InsertMarks == ASSUME CountInv, Typed', NEW c \in Conns, Insert(c) PROVE CountInv'
<1>1. UNCHANGED <<dirty, task, current, shown>> /\ conn[c].pc = "inserting"  BY DEF Insert
<1>2. \A q \in Conns \ {c} : conn'[q] = conn[q]  BY DEF Insert, Rest, CountInv, Typed
<1>3. \A q \in Conns : conn[q].pc = "marking" => conn'[q] = conn[q]  BY <1>1, <1>2
<1>4. ASSUME NEW m \in Messages PROVE Counts(m)' = Counts(m) \/ Marked(m)'
  <2>1. CASE rows' = rows  BY <2>1 DEF Counts, CountsIn
  <2>2. CASE rows' = rows \cup {Target(c)} /\ conn' = [conn EXCEPT ![c] = ToMark(conn[c].message)]
    <3>1. Target(c)[1] = conn[c].message  BY DEF Target
    <3>2. CASE m = conn[c].message
      <4>1. conn'[c] = ToMark(m)  BY <2>2, <3>2 DEF CountInv, Typed
      <4> QED  BY <4>1, Records DEF Marked
    <3>3. CASE m # conn[c].message  BY <2>2, <3>1, <3>3, OtherRows
    <3> QED  BY <3>2, <3>3
  <2> QED  BY <2>1, <2>2 DEF Insert
<1> QED  BY <1>1, <1>3, <1>4, TogglesMark

LEMMA RemoveMarks == ASSUME CountInv, Typed', NEW c \in Conns, Remove(c) PROVE CountInv'
<1>1. UNCHANGED <<dirty, task, current, shown>> /\ conn[c].pc = "removing" /\ rows' = rows \ {Target(c)}  BY DEF Remove
<1>2. \A q \in Conns : conn[q].pc = "marking" => conn'[q] = conn[q]  BY DEF Remove
<1>3. conn'[c] = ToMark(conn[c].message) /\ conn[c].message \in Messages
  BY <1>1 DEF Remove, CountInv, Typed, Aimed
<1>4. ASSUME NEW m \in Messages PROVE Counts(m)' = Counts(m) \/ Marked(m)'
  <2>1. Target(c)[1] = conn[c].message  BY DEF Target
  <2>2. CASE m = conn[c].message  BY <1>3, <2>2, Records DEF Marked
  <2>3. CASE m # conn[c].message  BY <1>1, <2>1, <2>3, OtherRows
  <2> QED  BY <2>2, <2>3
<1> QED  BY <1>1, <1>2, <1>4, TogglesMark

(* The mark moves from the socket to the batcher. *)
LEMMA MarkKeeps == ASSUME CountInv, Typed', NEW c \in Conns, Mark(c) PROVE CountInv'
<1>1. /\ dirty' = dirty \cup {conn[c].message} /\ rows' = rows /\ shown' = shown
      /\ \A q \in Conns \ {c} : conn'[q] = conn[q]
  BY DEF Mark, Rest, CountInv, Typed
<1>2. \A m \in Messages : Marked(m) => Marked(m)'  BY <1>1 DEF Marked
<1>3. \A m \in Messages : Counts(m)' = Counts(m)  BY <1>1 DEF Counts, CountsIn
<1>4. /\ \A f \in Flushers : task'[f] = task[f] \/ (task[f].pc = "done" /\ task'[f] = Sleeping)
      /\ OneTask'
  <2>1. CASE task[current].pc # "done" /\ UNCHANGED <<task, current>>  BY <2>1 DEF CountInv, OneTask
  <2>2. CASE task[current].pc = "done" /\ ~UNCHANGED <<task, current>>
    <3>1. PICK f \in Flushers : task[f].pc = "done" /\ current' = f /\ task' = [task EXCEPT ![f] = Sleeping]
      BY <2>2 DEF Mark
    <3>2. task'[f] = Sleeping /\ \A g \in Flushers \ {f} : task'[g] = task[g]  BY <3>1 DEF CountInv, Typed
    <3>3. \A g \in Flushers : task[g].pc = "done"  BY <2>2 DEF CountInv, OneTask
    <3> QED  BY <3>1, <3>2, <3>3, Records DEF CountInv, OneTask
  <2>3. UNCHANGED <<task, current>> \/ ~UNCHANGED <<task, current>>  OBVIOUS
  <2> QED  BY <2>1, <2>2, <2>3 DEF Mark, CountInv, OneTask
<1>5. \A f \in Flushers : task'[f].ids = task[f].ids
                          /\ (task'[f].at # NoMessage => task'[f] = task[f])
  BY <1>4, Records DEF CountInv, OneTask
<1>6. Fresh'
  <2> SUFFICES ASSUME NEW m \in Messages, ~Marked(m)'
               PROVE  /\ \A f \in Flushers : task'[f].at = m => task'[f].counts = Counts(m)'
                      /\ (\A f \in Flushers : m \notin task'[f].ids) => shown'[m] \in {Counts(m)', Untold}
    BY DEF Fresh
  <2>1. ~Marked(m) /\ Counts(m)' = Counts(m) /\ m # NoMessage  BY <1>2, <1>3, NamesAssumption
  <2> QED  BY <2>1, <1>1, <1>5 DEF CountInv, Fresh
<1> QED  BY <1>4, <1>6 DEF CountInv

(* A step of the one task f at work, which stays f. *)
LEMMA FlushKeeps == ASSUME CountInv, Typed', NEW f \in Flushers, FlushStep(f) \/ FlushFails(f) PROVE CountInv'
<1>1. rows' = rows /\ conn' = conn /\ current' = current
  BY DEF FlushStep, FlushFails, Pop, ReadCounts, Publish, Finish
<1>2. \A m \in Messages : Counts(m)' = Counts(m)  BY <1>1 DEF Counts, CountsIn
<1>3. task[f].pc # "done"  BY DEF FlushStep, FlushFails, Pop, ReadCounts, Publish, Finish
<1>4. \A g \in Flushers : task'[g] = task[g] \/ g = f
  BY DEF FlushStep, FlushFails, Pop, ReadCounts, Publish, Finish, CountInv, Typed
<1>5. f = current /\ \A g \in Flushers \ {f} : task[g].ids = {} /\ task[g].at = NoMessage /\ task[g].pc = "done"
  BY <1>3 DEF CountInv, OneTask
<1>6. ASSUME task'[f].pc # "flushing" => task'[f].ids = {} /\ task'[f].at = NoMessage,
             task'[f].at # NoMessage => task'[f].at \in task'[f].ids,
             ASSUME NEW m \in Messages, ~Marked(m)'
             PROVE  /\ task'[f].at = m => task'[f].counts = Counts(m)
                    /\ m \notin task'[f].ids => shown'[m] \in {Counts(m), Untold}
      PROVE  CountInv'
  <2>1. OneTask'  BY <1>1, <1>4, <1>5, <1>6 DEF CountInv, OneTask
  <2>2. Fresh'
    <3> SUFFICES ASSUME NEW m \in Messages, ~Marked(m)'
                 PROVE  /\ \A g \in Flushers : task'[g].at = m => task'[g].counts = Counts(m)'
                        /\ (\A g \in Flushers : m \notin task'[g].ids) => shown'[m] \in {Counts(m)', Untold}
      BY DEF Fresh
    <3>1. Counts(m)' = Counts(m) /\ m # NoMessage  BY <1>2, NamesAssumption
    <3> QED  BY <3>1, <1>4, <1>5, <1>6
  <2> QED  BY <2>1, <2>2 DEF CountInv
<1>7. ASSUME NEW m \in Messages, ~Marked(m)
      PROVE  /\ task[f].at = m => task[f].counts = Counts(m)
             /\ m \notin task[f].ids => shown[m] \in {Counts(m), Untold}
  BY <1>5, <1>7 DEF CountInv, Fresh
<1>8. CASE Pop(f)
  <2>1. task'[f].pc = "flushing" /\ task'[f].ids = dirty /\ task'[f].at = NoMessage
    <3>1. task[f].at = NoMessage  BY <1>8 DEF Pop, CountInv, OneTask
    <3> QED  BY <3>1, <1>8 DEF Pop, CountInv, Typed, TaskType
  <2>2. dirty' = {} /\ shown' = shown /\ task[f].ids = {}  BY <1>8 DEF Pop, CountInv, OneTask
  <2>3. ASSUME NEW m \in Messages, ~Marked(m)', m \notin task'[f].ids PROVE shown'[m] \in {Counts(m), Untold}
    <3>1. ~Marked(m)  BY <2>1, <2>3, <1>1 DEF Marked
    <3> QED  BY <3>1, <2>2, <1>7
  <2> QED  BY <2>1, <2>3, <1>6, NamesAssumption
<1>9. CASE ReadCounts(f)
  <2>1. PICK m0 \in task[f].ids : task' = [task EXCEPT ![f].at = m0, ![f].counts = Counts(m0)]  BY <1>9 DEF ReadCounts
  <2>2. /\ task'[f].pc = task[f].pc /\ task'[f].ids = task[f].ids /\ task'[f].at = m0 /\ task'[f].counts = Counts(m0)
        /\ task[f].pc = "flushing"
    BY <2>1, <1>9 DEF ReadCounts, CountInv, Typed, TaskType
  <2>3. dirty' = dirty /\ shown' = shown  BY <1>9 DEF ReadCounts
  <2>4. \A m \in Messages : Marked(m)' <=> Marked(m)  BY <2>3, <1>1 DEF Marked
  <2> QED  BY <2>2, <2>3, <2>4, <1>6, <1>7
<1>10. CASE Publish(f)
  <2>1. PICK m0 \in Messages : m0 = task[f].at /\ m0 \in task[f].ids
    BY <1>10, NamesAssumption DEF Publish, CountInv, OneTask, Typed, TaskType
  <2>2. PICK x : x = [Done EXCEPT !.pc = "flushing", !.ids = task[f].ids \ {m0}]  OBVIOUS
  <2>3. x.pc = "flushing" /\ x.ids = task[f].ids \ {m0} /\ x.at = NoMessage  BY <2>2, Records DEF TaskType
  <2>4. task'[f] = x  BY <1>10, <2>1, <2>2 DEF Publish, CountInv, Typed
  <2>5. dirty' = dirty /\ shown'[m0] = task[f].counts /\ \A m \in Messages \ {m0} : shown'[m] = shown[m]
    BY <1>10, <2>1 DEF Publish, CountInv, Typed
  <2>6. \A m \in Messages : Marked(m)' <=> Marked(m)  BY <2>5, <1>1 DEF Marked
  <2> QED  BY <2>1, <2>3, <2>4, <2>5, <2>6, <1>6, <1>7, NamesAssumption
<1>11. CASE Finish(f)
  <2>1. task'[f] = Done /\ dirty' = dirty /\ shown' = shown /\ task[f].ids = {}  BY <1>11 DEF Finish, CountInv, Typed
  <2>2. \A m \in Messages : Marked(m)' <=> Marked(m)  BY <2>1, <1>1 DEF Marked
  <2> QED  BY <2>1, <2>2, <1>6, <1>7, Records, NamesAssumption
<1>12. CASE FlushFails(f)
  <2>1. /\ task'[f] = Done /\ dirty' = dirty
        /\ \A m \in Messages : shown'[m] = IF m \in task[f].ids THEN Untold ELSE shown[m]
    BY <1>12 DEF FlushFails, CountInv, Typed
  <2>2. \A m \in Messages : Marked(m)' <=> Marked(m)  BY <2>1, <1>1 DEF Marked
  <2> QED  BY <2>1, <2>2, <1>6, <1>7, Records, NamesAssumption
<1> QED  BY <1>8, <1>9, <1>10, <1>11, <1>12 DEF FlushStep

LEMMA CountInvNext == ASSUME CountInv, [Next]_vars PROVE CountInv'
<1>1. Typed'  BY TypedNext DEF CountInv
<1>2. CASE UNCHANGED vars
  BY <1>1, <1>2 DEF vars, CountInv, OneTask, Fresh, Marked, Counts, CountsIn
<1>3. CASE Next
  BY <1>1, <1>3, ReactMarks, InsertMarks, RemoveMarks, MarkKeeps, FlushKeeps DEF Next, ToggleStep
<1> QED  BY <1>2, <1>3

(* ReactionBatcher forgets no change: whatever toggles, flushes and failures *)
(* overlap, of a message that is not marked, about to be marked or in a     *)
(* flush the channel knows the counts, unless a flush that failed had it.   *)
THEOREM ShownAlwaysCounted == Spec => []ShownIsCounted
<1>1. CountInv => ShownIsCounted  BY DEF CountInv, Fresh, ShownIsCounted, Settled, Marked
<1> QED  BY <1>1, InitCountInv, CountInvNext, PTL DEF Spec

=============================================================================
