----------------------------- MODULE Polls_proofs -----------------------------
(***************************************************************************)
(* The tally and the result of a poll, proved for any accounts, options,   *)
(* requests and bounds on faults: LiveTallyExact, ResultKeepsAnswered and  *)
(* ResultFrozen.                                                           *)
(*                                                                         *)
(* A vote that waits for its increment is the only one of its account and  *)
(* was not answered (Cast); what the hash lacks of the rows are these      *)
(* votes (Exact), so what a closer reads lies between what was answered    *)
(* when it set out and the rows (Counted), and so does what it writes      *)
(* (Result).  Without votes under way it is the rows (Quiet).              *)
(***************************************************************************)
EXTENDS Polls, FiniteSetTheorems, TLAPS

Tallies == [Options -> Nat]

BallotType ==
  [pc : {"idle", "checked", "counting", "scheduling"},
   account : Accounts \cup {NoVote}, option : Options \cup {NoVote}]

ReaderType ==
  [pc : {"idle", "sleeping", "options", "asked", "rebuilding", "filling", "tallied", "dropping", "telling"},
   role : {"start", "view", "update", "close"},
   tally : Tallies, loaded : Tallies, acked : Tallies]

Typed ==
  /\ status \in {"none", "open", "closed"}
  /\ votes \in [Accounts -> Options \cup {NoVote}]
  /\ stored \in Tallies /\ (key = Missing \/ key \in Tallies) /\ due \in Tallies
  /\ ballot \in [Ballots -> BallotType]
  /\ \A b \in Ballots : ballot[b].pc # "idle" => ballot[b].account \in Accounts /\ ballot[b].option \in Options
  /\ reader \in [Coroutines -> ReaderType]
  /\ answered \subseteq Accounts
  /\ torn \in BOOLEAN /\ late \in BOOLEAN /\ lowered \in BOOLEAN

-----------------------------------------------------------------------------
(* Who voted for o, and the votes for o that wait for their increment *)
Ayes(o) == {a \in Voted : votes[a] = o}

Waiting(o) == {b \in Ballots : ballot[b].pc = "counting" /\ ballot[b].option = o}

LEMMA Sizes ==
  ASSUME NEW o \in Options
  PROVE  /\ Counts[o] = Cardinality(Ayes(o)) /\ Counts[o] \in Nat /\ IsFiniteSet(Ayes(o))
         /\ InFlight(o) = Cardinality(Waiting(o)) /\ InFlight(o) \in Nat /\ IsFiniteSet(Waiting(o))
<1>1. Counts[o] = Cardinality(Ayes(o))  BY DEF Counts, CountOf, Ayes
<1>2. InFlight(o) = Cardinality(Waiting(o))  BY DEF InFlight, Waiting
<1>3. IsFiniteSet(Ayes(o))  BY FinitenessAssumption, FS_Subset DEF Ayes, Voted
<1>4. IsFiniteSet(Waiting(o))  BY FinitenessAssumption, FS_Subset DEF Waiting
<1> QED  BY <1>1, <1>2, <1>3, <1>4, FS_CardinalityType

LEMMA TallyTypes ==
  /\ Zero \in Tallies /\ Counts \in Tallies
  /\ answered \subseteq Accounts => CountOf(answered) \in Tallies
<1>1. Zero \in Tallies  BY DEF Zero, Tallies
<1>2. Counts \in Tallies
  <2>1. \A o \in Options : Counts[o] \in Nat  BY Sizes
  <2> QED  BY <2>1 DEF Counts, CountOf, Tallies
<1>3. ASSUME answered \subseteq Accounts PROVE CountOf(answered) \in Tallies
  <2>1. \A o \in Options : Cardinality({a \in answered : votes[a] = o}) \in Nat
    BY <1>3, FinitenessAssumption, FS_Subset, FS_CardinalityType
  <2> QED  BY <2>1 DEF CountOf, Tallies
<1> QED  BY <1>1, <1>2, <1>3

LEMMA Records ==
  /\ NoBallot \in BallotType /\ NoBallot.pc = "idle"
  /\ NoReader \in ReaderType /\ NoReader.pc = "idle" /\ NoReader.role = "view"
<1>1. NoBallot \in BallotType /\ NoBallot.pc = "idle"  BY DEF NoBallot, BallotType
<1>2. NoReader \in ReaderType /\ NoReader.pc = "idle" /\ NoReader.role = "view"
  BY TallyTypes DEF NoReader, ReaderType
<1> QED  BY <1>1, <1>2

(* What a coroutine goes on as *)
LEMMA ReadingIs ==
  ASSUME Typed, NEW p \in {"asked", "options"}, NEW r \in {"start", "view", "close"}
  PROVE  /\ Reading(p, r) \in ReaderType /\ Reading(p, r).pc = p /\ Reading(p, r).role = r
         /\ Reading(p, r).loaded = Zero
         /\ r = "close" => Reading(p, r).acked = CountOf(answered)
<1>1. PICK k : k = IF r = "close" THEN CountOf(answered) ELSE Zero  OBVIOUS
<1>2. k \in Tallies  BY <1>1, TallyTypes DEF Typed
<1>3. Reading(p, r) = [NoReader EXCEPT !.pc = p, !.role = r, !.acked = k]  BY <1>1 DEF Reading
<1>4. PICK x : x = [NoReader EXCEPT !.pc = p, !.role = r, !.acked = k]  OBVIOUS
<1>5. x \in ReaderType /\ x.pc = p /\ x.role = r /\ x.acked = k /\ x.loaded = NoReader.loaded
  BY <1>2, <1>4, Records DEF ReaderType
<1>6. NoReader.loaded = Zero  BY DEF NoReader
<1> QED  BY <1>1, <1>3, <1>4, <1>5, <1>6

(* What Tallied and Goto make of c *)
Kept(x, c) == x.role = reader[c].role /\ x.acked = reader[c].acked /\ x.loaded = reader[c].loaded

LEMMA TalliedIs ==
  ASSUME Typed, NEW c \in Coroutines, NEW t \in Tallies, Tallied(c, t)
  PROVE  \E x \in ReaderType :
           /\ reader' = [reader EXCEPT ![c] = x]
           /\ x.pc \in {"idle", "tallied"}
           /\ x.pc # "idle" /\ x.role = "close" => x.pc = "tallied" /\ x.tally = t /\ Kept(x, c)
<1>0. reader[c] \in ReaderType  BY DEF Typed
<1>1. CASE reader[c].role = "view"
  BY <1>1, Records DEF Tallied
<1>2. CASE reader[c].role = "close"
  <2>1. PICK x : x = [reader[c] EXCEPT !.pc = "tallied", !.tally = t]  OBVIOUS
  <2>2. x \in ReaderType /\ x.pc = "tallied" /\ x.tally = t /\ Kept(x, c)
    BY <1>0, <2>1 DEF ReaderType, Kept
  <2>3. reader' = [reader EXCEPT ![c] = x]  BY <1>2, <2>1 DEF Tallied, Typed
  <2> QED  BY <2>2, <2>3
<1>3. CASE reader[c].role \notin {"view", "close"}
  <2>1. PICK x : x = [NoReader EXCEPT !.pc = "tallied", !.role = reader[c].role]  OBVIOUS
  <2>2. x \in ReaderType /\ x.pc = "tallied" /\ x.role = reader[c].role
    BY <1>0, <2>1, Records DEF ReaderType
  <2>3. reader' = [reader EXCEPT ![c] = x]  BY <1>3, <2>1 DEF Tallied, Typed
  <2> QED  BY <1>3, <2>2, <2>3
<1> QED  BY <1>1, <1>2, <1>3

LEMMA GoneToIs ==
  ASSUME Typed, NEW c \in Coroutines, NEW p \in {"asked", "rebuilding", "dropping", "telling"}, Goto(c, p)
  PROVE  \E x \in ReaderType :
           reader' = [reader EXCEPT ![c] = x] /\ x.pc = p /\ Kept(x, c)
<1>0. reader[c] \in ReaderType  BY DEF Typed
<1>1. PICK x : x = [reader[c] EXCEPT !.pc = p]  OBVIOUS
<1>2. x \in ReaderType /\ x.pc = p /\ Kept(x, c)
  BY <1>0, <1>1 DEF ReaderType, Kept
<1>3. reader' = [reader EXCEPT ![c] = x]  BY <1>1 DEF Goto, Typed
<1> QED  BY <1>2, <1>3

(* A step of a coroutine: where it goes, and what a closer takes along. *)
LEMMA CoroutineGoes ==
  ASSUME Typed, NEW c \in Coroutines, ReaderStep(c) \/ ReadFails(c)
  PROVE  \E x \in ReaderType :
           /\ reader' = [reader EXCEPT ![c] = x]
           /\ x.pc = "filling" => ReadRows(c) /\ x.tally = Counts
           /\ x.pc = "rebuilding" => HGetAll(c)
           /\ x.pc # "idle" /\ x.role = "close" =>
                /\ reader[c].role = "close" /\ reader[c].pc # "idle" /\ x.acked = reader[c].acked
                /\ x.loaded = reader[c].loaded \/ x.loaded = stored
                /\ x.pc = "tallied" =>
                     \/ HGetAll(c) /\ key # Missing /\ x.tally = key
                     \/ ReadRows(c) /\ x.tally = Counts
                     \/ Fill(c) /\ x.tally = reader[c].tally
<1>0. reader[c] \in ReaderType  BY DEF Typed
<1>1. CASE Leave(c)  BY <1>1, Records DEF Leave
<1>2. CASE CloseOptions(c)
  <2>1. PICK x : x = [reader[c] EXCEPT !.pc = "asked", !.loaded = stored]  OBVIOUS
  <2>2. x \in ReaderType /\ x.pc = "asked" /\ x.role = reader[c].role /\ x.acked = reader[c].acked /\ x.loaded = stored
    BY <1>0, <2>1 DEF ReaderType, Typed
  <2>3. reader' = [reader EXCEPT ![c] = x]  BY <1>2, <2>1 DEF CloseOptions, Typed
  <2> QED  BY <1>2, <2>2, <2>3 DEF CloseOptions
<1>3. CASE HGetAll(c)
  <2>1. CASE key = Missing
    <3>1. Goto(c, "rebuilding")  BY <1>3, <2>1 DEF HGetAll
    <3>2. PICK x \in ReaderType : reader' = [reader EXCEPT ![c] = x] /\ x.pc = "rebuilding" /\ Kept(x, c)
      BY <3>1, GoneToIs
    <3> QED  BY <1>3, <3>2 DEF HGetAll, Kept
  <2>2. CASE key # Missing
    <3>1. key \in Tallies /\ Tallied(c, key)  BY <1>3, <2>2 DEF HGetAll, Typed
    <3>2. PICK x \in ReaderType :
            /\ reader' = [reader EXCEPT ![c] = x] /\ x.pc \in {"idle", "tallied"}
            /\ x.pc # "idle" /\ x.role = "close" => x.pc = "tallied" /\ x.tally = key /\ Kept(x, c)
      BY <3>1, TalliedIs
    <3> QED  BY <1>3, <2>2, <3>2 DEF HGetAll, Kept
  <2> QED  BY <2>1, <2>2
<1>4. CASE ReadRows(c)
  <2>1. CASE Counts = Zero
    <3>0. PICK k \in Tallies : k = Counts  BY TallyTypes
    <3>1. Tallied(c, k)  BY <1>4, <2>1, <3>0 DEF ReadRows
    <3>2. PICK x \in ReaderType :
            /\ reader' = [reader EXCEPT ![c] = x] /\ x.pc \in {"idle", "tallied"}
            /\ x.pc # "idle" /\ x.role = "close" => x.pc = "tallied" /\ x.tally = k /\ Kept(x, c)
      BY <3>1, TalliedIs
    <3>3. reader[c].pc # "idle"  BY <1>4 DEF ReadRows
    <3> QED  BY <1>4, <3>0, <3>2, <3>3 DEF Kept
  <2>2. CASE Counts # Zero
    <3>0. PICK k \in Tallies : k = Counts  BY TallyTypes
    <3>1. PICK x : x = [reader[c] EXCEPT !.pc = "filling", !.tally = k]  OBVIOUS
    <3>2. x \in ReaderType /\ x.pc = "filling" /\ Kept(x, c) /\ x.tally = Counts
      BY <1>0, <3>0, <3>1 DEF ReaderType, Kept
    <3>3. reader' = [reader EXCEPT ![c].pc = "filling", ![c].tally = k]  BY <1>4, <2>2, <3>0 DEF ReadRows
    <3>4. reader' = [reader EXCEPT ![c] = x]  BY <3>1, <3>3 DEF Typed
    <3>5. reader[c].pc # "idle"  BY <1>4 DEF ReadRows
    <3> QED  BY <1>4, <3>2, <3>4, <3>5 DEF Kept
  <2> QED  BY <2>1, <2>2
<1>5. CASE Fill(c)
  <2>1. PICK k \in Tallies : k = reader[c].tally  BY <1>0 DEF ReaderType
  <2>2. Tallied(c, k)  BY <1>5, <2>1 DEF Fill
  <2>3. PICK x \in ReaderType :
          /\ reader' = [reader EXCEPT ![c] = x] /\ x.pc \in {"idle", "tallied"}
          /\ x.pc # "idle" /\ x.role = "close" => x.pc = "tallied" /\ x.tally = k /\ Kept(x, c)
    BY <2>2, TalliedIs
  <2>4. reader[c].pc # "idle"  BY <1>5 DEF Fill
  <2> QED  BY <1>5, <2>1, <2>3, <2>4 DEF Kept
<1>6. CASE CloseCommit(c)
  <2>1. Goto(c, "dropping") /\ reader[c].pc # "idle"  BY <1>6 DEF CloseCommit, At
  <2>2. PICK x \in ReaderType : reader' = [reader EXCEPT ![c] = x] /\ x.pc = "dropping" /\ Kept(x, c)
    BY <2>1, GoneToIs
  <2> QED  BY <2>1, <2>2 DEF Kept
<1>7. CASE DropKey(c)
  <2>1. Goto(c, "telling") /\ reader[c].pc # "idle"  BY <1>7 DEF DropKey
  <2>2. PICK x \in ReaderType : reader' = [reader EXCEPT ![c] = x] /\ x.pc = "telling" /\ Kept(x, c)
    BY <2>1, GoneToIs
  <2> QED  BY <2>1, <2>2 DEF Kept
<1> QED
  BY <1>1, <1>2, <1>3, <1>4, <1>5, <1>6, <1>7 DEF ReaderStep, ReadFails, Publish, Tell

(* A coroutine that sets out, wakes, or waits *)
LEMMA CoroutineStarts ==
  ASSUME Typed, \/ \E c \in Readers : Create(c) \/ View(c) \/ CloseBegin(c)
                \/ UpdateWake
  PROVE  \E c \in Coroutines, x \in ReaderType :
           /\ reader' = [reader EXCEPT ![c] = x]
           /\ x.pc \in {"idle", "asked", "options"}
           /\ x.pc # "idle" /\ x.role = "close" =>
                status = "open" /\ x.loaded = Zero /\ x.acked = CountOf(answered)
<1>1. ASSUME NEW c \in Readers, Create(c) PROVE reader' = [reader EXCEPT ![c] = Reading("asked", "start")]
  BY <1>1 DEF Create, Enter
<1>2. ASSUME NEW c \in Readers, View(c) PROVE reader' = [reader EXCEPT ![c] = Reading("asked", "view")]
  BY <1>2 DEF View, Enter
<1>3. ASSUME NEW c \in Readers, CloseBegin(c)
      PROVE  reader' = [reader EXCEPT ![c] = Reading("options", "close")] /\ status = "open"
  BY <1>3 DEF CloseBegin, Enter
<1>4. Readers \subseteq Coroutines /\ Updater \in Coroutines  BY DEF Coroutines
<1>5. CASE UpdateWake
  <2>1. CASE status = "open"
    <3>1. Goto(Updater, "asked") /\ reader[Updater].role = "update"  BY <1>5, <2>1 DEF UpdateWake, At
    <3>2. PICK x \in ReaderType : reader' = [reader EXCEPT ![Updater] = x] /\ x.pc = "asked" /\ Kept(x, Updater)
      BY <1>4, <3>1, GoneToIs
    <3> QED  BY <1>4, <3>1, <3>2 DEF Kept
  <2>2. CASE status # "open"
    <3>1. Leave(Updater)  BY <1>5, <2>2 DEF UpdateWake
    <3> QED  BY <1>4, <3>1, Records DEF Leave
  <2> QED  BY <2>1, <2>2
<1>6. CASE \E c \in Readers : Create(c)  BY <1>1, <1>4, <1>6, ReadingIs
<1>7. CASE \E c \in Readers : View(c)  BY <1>2, <1>4, <1>7, ReadingIs
<1>8. CASE \E c \in Readers : CloseBegin(c)  BY <1>3, <1>4, <1>8, ReadingIs
<1> QED  BY <1>5, <1>6, <1>7, <1>8

-----------------------------------------------------------------------------
(* A step of a vote request *)
BallotStep(b) == VoteCheck(b) \/ VoteCommit(b) \/ VoteCount(b) \/ Schedule(b) \/ CountFails(b)

SameVote(x, b) == x.account = ballot[b].account /\ x.option = ballot[b].option

LEMMA BallotGoes ==
  ASSUME Typed, NEW b \in Ballots, BallotStep(b)
  PROVE  \E x \in BallotType :
           /\ ballot' = [ballot EXCEPT ![b] = x]
           /\ x.pc # "idle" => x.account \in Accounts /\ x.option \in Options
           /\ x.pc = "checked" => VoteCheck(b)
           /\ x.pc = "counting" =>
                /\ VoteCommit(b) /\ SameVote(x, b) /\ votes[x.account] = NoVote
                /\ votes' = [votes EXCEPT ![x.account] = x.option]
           /\ x.pc = "scheduling" => VoteCount(b) /\ SameVote(x, b)
           /\ x.pc # "counting" => votes' = votes
<1>0. ballot[b] \in BallotType /\ (ballot[b].pc # "idle" => ballot[b].account \in Accounts /\ ballot[b].option \in Options)
  BY DEF Typed
<1>1. CASE ballot' = [ballot EXCEPT ![b] = NoBallot] /\ votes' = votes
  BY <1>1, Records
<1>2. CASE VoteCheck(b)
  <2>1. PICK a \in Accounts, o \in Options :
          ballot' = [ballot EXCEPT ![b] = [pc |-> "checked", account |-> a, option |-> o]]
    BY <1>2 DEF VoteCheck
  <2>2. PICK x : x = [pc |-> "checked", account |-> a, option |-> o]  OBVIOUS
  <2>3. x \in BallotType /\ x.pc = "checked" /\ x.account = a /\ x.option = o  BY <2>2 DEF BallotType
  <2>4. votes' = votes  BY <1>2 DEF VoteCheck
  <2> QED  BY <1>2, <2>1, <2>2, <2>3, <2>4
<1>3. CASE VoteCommit(b)
  <2>0. ballot[b].pc = "checked"  BY <1>3 DEF VoteCommit
  <2>1. CASE votes[ballot[b].account] = NoVote /\ ballot' = [ballot EXCEPT ![b].pc = "counting"]
             /\ votes' = [votes EXCEPT ![ballot[b].account] = ballot[b].option]
    <3>1. PICK x : x = [ballot[b] EXCEPT !.pc = "counting"]  OBVIOUS
    <3>2. x \in BallotType /\ x.pc = "counting" /\ SameVote(x, b)  BY <1>0, <3>1 DEF BallotType, SameVote
    <3>3. ballot' = [ballot EXCEPT ![b] = x]  BY <2>1, <3>1 DEF Typed
    <3> QED  BY <1>0, <1>3, <2>0, <2>1, <3>2, <3>3 DEF SameVote
  <2> QED  BY <1>1, <1>3, <2>1 DEF VoteCommit
<1>4. CASE VoteCount(b)
  <2>1. ballot[b].pc = "counting" /\ ballot' = [ballot EXCEPT ![b].pc = "scheduling"] /\ votes' = votes
    BY <1>4 DEF VoteCount
  <2>2. PICK x : x = [ballot[b] EXCEPT !.pc = "scheduling"]  OBVIOUS
  <2>3. x \in BallotType /\ x.pc = "scheduling" /\ SameVote(x, b)  BY <1>0, <2>2 DEF BallotType, SameVote
  <2>4. ballot' = [ballot EXCEPT ![b] = x]  BY <2>1, <2>2 DEF Typed
  <2> QED  BY <1>0, <1>4, <2>1, <2>3, <2>4 DEF SameVote
<1> QED  BY <1>1, <1>2, <1>3, <1>4 DEF BallotStep, Schedule, CountFails

(* What every other step leaves alone *)
Elsewhere ==
  \/ \E c \in Readers : Create(c) \/ View(c) \/ CloseBegin(c)
  \/ \E c \in Coroutines : ReaderStep(c) \/ ReadFails(c)
  \/ UpdateWake \/ Expire \/ LoseRedis

LEMMA NextIs == Next => (\E b \in Ballots : BallotStep(b)) \/ Elsewhere \/ Restart
  BY DEF Next, BallotStep, Elsewhere

LEMMA ElsewhereKeeps == Elsewhere => UNCHANGED <<votes, ballot, answered>>
<1>1. ASSUME NEW c, ReaderStep(c) PROVE UNCHANGED <<votes, ballot, answered>>
  BY <1>1 DEF ReaderStep, CloseOptions, HGetAll, ReadRows, Fill, Publish, CloseCommit, DropKey, Tell
<1> QED
  BY <1>1 DEF Elsewhere, Create, View, CloseBegin, ReadFails, UpdateWake, Expire, LoseRedis

LEMMA NoteTaken == Next => \E t \in BOOLEAN : Note(t)
<1>1. ASSUME NEW b \in Ballots, BallotStep(b) PROVE \E t \in BOOLEAN : Note(t)
  <2>1. LosesOthers(b) \in BOOLEAN  BY DEF LosesOthers
  <2> QED  BY <1>1, <2>1 DEF BallotStep, VoteCheck, VoteCommit, VoteCount, Schedule, CountFails, Same
<1>2. ASSUME Elsewhere PROVE \E t \in BOOLEAN : Note(t)
  <2>1. ASSUME NEW c, ReaderStep(c) PROVE Note(FALSE)
    BY <2>1 DEF ReaderStep, CloseOptions, HGetAll, ReadRows, Fill, Publish, CloseCommit, DropKey, Tell, Same
  <2> QED
    BY <1>2, <2>1 DEF Elsewhere, Create, View, CloseBegin, ReadFails, UpdateWake, Expire, LoseRedis, Same
<1>3. ASSUME Restart PROVE \E t \in BOOLEAN : Note(t)
  <2>1. Counting \in BOOLEAN  BY DEF Counting
  <2> QED  BY <1>3, <2>1 DEF Restart
<1> QED  BY <1>1, <1>2, <1>3, NextIs

LEMMA Notes ==
  ASSUME Next
  PROVE  /\ ~torn' => ~torn /\ ~(Rebuilding' /\ Counting')
         /\ ~late' => ~late /\ ~(Closing' /\ Voting')
<1>1. PICK t \in BOOLEAN : Note(t)  BY NoteTaken
<1> QED  BY <1>1 DEF Note

(* Only a new vote adds to those that are under way. *)
LEMMA VotingComes ==
  ASSUME Typed, Next, Voting'
  PROVE  Voting \/ (status = "open" /\ status' = "open" /\ votes' = votes)
<1>1. ASSUME NEW b \in Ballots, BallotStep(b)
      PROVE  Voting \/ (status = "open" /\ status' = "open" /\ votes' = votes)
  <2>1. PICK x \in BallotType :
           /\ ballot' = [ballot EXCEPT ![b] = x]
           /\ x.pc = "checked" => VoteCheck(b)
           /\ x.pc = "counting" => VoteCommit(b)
    BY <1>1, BallotGoes
  <2>2. PICK q \in Ballots : ballot'[q].pc \in {"checked", "counting"}  BY DEF Voting
  <2>3. CASE q # b  BY <2>1, <2>2, <2>3 DEF Voting, Typed
  <2>4. CASE q = b /\ x.pc = "checked"  BY <2>1, <2>4 DEF VoteCheck
  <2>5. CASE q = b /\ x.pc = "counting"  BY <2>1, <2>5 DEF VoteCommit, Voting
  <2>6. q = b => ballot'[q] = x  BY <2>1 DEF Typed
  <2> QED  BY <2>2, <2>3, <2>4, <2>5, <2>6
<1>2. CASE Elsewhere  BY <1>2, ElsewhereKeeps DEF Voting
<1>3. CASE Restart  BY <1>3, Records DEF Restart, Voting
<1> QED  BY <1>1, <1>2, <1>3, NextIs

-----------------------------------------------------------------------------
(* A coroutine that moves: what it then holds, if it fills or closes *)
Closes(c) == reader[c].pc # "idle" /\ reader[c].role = "close"

SetsOut(c) ==
  status = "open" /\ reader'[c].loaded = Zero /\ reader'[c].acked = CountOf(answered)
  /\ reader'[c].pc # "tallied"

Reads(c) ==
  \/ HGetAll(c) /\ key # Missing /\ reader'[c].tally = key
  \/ ReadRows(c) /\ reader'[c].tally = Counts
  \/ Fill(c) /\ reader'[c].tally = reader[c].tally

GoesOn(c) ==
  /\ Closes(c) /\ reader'[c].acked = reader[c].acked
  /\ reader'[c].loaded = reader[c].loaded \/ reader'[c].loaded = stored
  /\ reader'[c].pc = "tallied" => Reads(c)

Goes(c) ==
  /\ reader'[c].pc = "filling" => ReadRows(c) /\ reader'[c].tally = Counts
  /\ reader'[c].pc # "idle" /\ reader'[c].role = "close" => SetsOut(c) \/ GoesOn(c)

LEMMA ReaderGoes ==
  ASSUME Typed, Next
  PROVE  /\ reader' \in [Coroutines -> ReaderType]
         /\ \A c \in Coroutines : reader'[c] = reader[c] \/ Goes(c)
<1>0. reader \in [Coroutines -> ReaderType]  BY DEF Typed
<1>a. CASE reader' = reader  BY <1>0, <1>a
<1>1. ASSUME NEW c \in Coroutines, ReaderStep(c) \/ ReadFails(c)
      PROVE  /\ reader' \in [Coroutines -> ReaderType]
             /\ \A d \in Coroutines : reader'[d] = reader[d] \/ Goes(d)
  <2>1. PICK x \in ReaderType :
           /\ reader' = [reader EXCEPT ![c] = x]
           /\ x.pc = "filling" => ReadRows(c) /\ x.tally = Counts
           /\ x.pc # "idle" /\ x.role = "close" =>
                /\ reader[c].role = "close" /\ reader[c].pc # "idle" /\ x.acked = reader[c].acked
                /\ x.loaded = reader[c].loaded \/ x.loaded = stored
                /\ x.pc = "tallied" =>
                     \/ HGetAll(c) /\ key # Missing /\ x.tally = key
                     \/ ReadRows(c) /\ x.tally = Counts
                     \/ Fill(c) /\ x.tally = reader[c].tally
    BY <1>1, CoroutineGoes
  <2>2. reader'[c] = x /\ reader' \in [Coroutines -> ReaderType]
        /\ \A d \in Coroutines : d # c => reader'[d] = reader[d]
    BY <1>0, <2>1
  <2>3. Goes(c)  BY <2>1, <2>2 DEF Goes, GoesOn, Reads, Closes
  <2> QED  BY <2>2, <2>3
<1>2. CASE (\E c \in Readers : Create(c) \/ View(c) \/ CloseBegin(c)) \/ UpdateWake
  <2>1. PICK c \in Coroutines : \E x \in ReaderType :
           /\ reader' = [reader EXCEPT ![c] = x]
           /\ x.pc \in {"idle", "asked", "options"}
           /\ x.pc # "idle" /\ x.role = "close" =>
                status = "open" /\ x.loaded = Zero /\ x.acked = CountOf(answered)
    BY <1>2, CoroutineStarts
  <2>2. PICK x \in ReaderType :
           /\ reader' = [reader EXCEPT ![c] = x]
           /\ x.pc \in {"idle", "asked", "options"}
           /\ x.pc # "idle" /\ x.role = "close" =>
                status = "open" /\ x.loaded = Zero /\ x.acked = CountOf(answered)
    BY <2>1
  <2>3. reader'[c] = x /\ reader' \in [Coroutines -> ReaderType]
        /\ \A d \in Coroutines : d # c => reader'[d] = reader[d]
    BY <1>0, <2>2
  <2>4. Goes(c)  BY <2>2, <2>3 DEF Goes, SetsOut
  <2> QED  BY <2>3, <2>4
<1>3. ASSUME NEW b \in Ballots, Schedule(b)
      PROVE  /\ reader' \in [Coroutines -> ReaderType]
             /\ \A d \in Coroutines : reader'[d] = reader[d] \/ Goes(d)
  <2>1. PICK z : z = [NoReader EXCEPT !.pc = "sleeping", !.role = "update"]  OBVIOUS
  <2>2. z \in ReaderType /\ z.pc = "sleeping" /\ z.role = "update"  BY <2>1, Records DEF ReaderType
  <2>3. PICK v \in ReaderType : v = Reading("asked", "view") /\ v.pc = "asked" /\ v.role = "view"
    BY ReadingIs
  <2>4. b \in Coroutines /\ Updater \in Coroutines  BY DEF Coroutines
  <2>5. Scheduled \in {reader, [reader EXCEPT ![Updater] = z]}  BY <2>1 DEF Scheduled
  <2>6. reader' \in {Scheduled, [Scheduled EXCEPT ![b] = v]}  BY <1>3, <2>3 DEF Schedule
  <2>7. /\ Scheduled \in [Coroutines -> ReaderType]
        /\ \A d \in Coroutines : Scheduled[d] \in {reader[d], z}
    BY <1>0, <2>2, <2>4, <2>5
  <2>8. /\ reader' \in [Coroutines -> ReaderType]
        /\ \A d \in Coroutines : reader'[d] \in {reader[d], z, v}
    BY <2>3, <2>4, <2>6, <2>7
  <2>9. ASSUME NEW d \in Coroutines, reader'[d] \in {z, v} PROVE Goes(d)
    <3>1. reader'[d].pc \in {"sleeping", "asked"} /\ reader'[d].role \in {"update", "view"}  BY <2>2, <2>3, <2>9
    <3> QED  BY <3>1 DEF Goes
  <2> QED  BY <2>8, <2>9
<1>4. CASE Restart
  <2>1. /\ reader' \in [Coroutines -> ReaderType]
        /\ \A d \in Coroutines : reader'[d] = NoReader
    BY <1>4, Records DEF Restart
  <2>2. ASSUME NEW d \in Coroutines PROVE Goes(d)
    <3>1. reader'[d].pc = "idle"  BY <2>1, Records
    <3> QED  BY <3>1 DEF Goes
  <2> QED  BY <2>1, <2>2
<1>5. ASSUME NEW b \in Ballots, BallotStep(b), ~Schedule(b) PROVE reader' = reader
  BY <1>5 DEF BallotStep, VoteCheck, VoteCommit, VoteCount, CountFails
<1>6. Expire \/ LoseRedis => reader' = reader  BY DEF Expire, LoseRedis
<1> QED  BY <1>a, <1>1, <1>2, <1>3, <1>4, <1>5, <1>6, NextIs DEF Elsewhere

(* Who writes the result and the hash *)
LEMMA Writers ==
  ASSUME Next
  PROVE  /\ \/ UNCHANGED <<status, stored, due, lowered>>
            \/ status = "none" /\ status' = "open" /\ UNCHANGED <<stored, due, lowered>>
            \/ \E c \in Coroutines : CloseCommit(c)
         /\ \/ key' = key \/ key' = Missing
            \/ \E b \in Ballots : VoteCount(b)
            \/ \E c \in Coroutines : Fill(c)
<1>1. ASSUME NEW c \in Coroutines, ReaderStep(c) \/ ReadFails(c)
      PROVE  /\ UNCHANGED <<status, stored, due, lowered>> \/ CloseCommit(c)
             /\ key' = key \/ key' = Missing \/ Fill(c)
  <2>1. CASE CloseOptions(c) \/ HGetAll(c) \/ ReadRows(c) \/ Publish(c) \/ DropKey(c) \/ Tell(c) \/ ReadFails(c)
    BY <2>1 DEF CloseOptions, HGetAll, ReadRows, Publish, DropKey, Tell, ReadFails
  <2>2. CASE Fill(c)  BY <2>2 DEF Fill
  <2>3. CASE CloseCommit(c)  BY <2>3 DEF CloseCommit
  <2> QED  BY <1>1, <2>1, <2>2, <2>3 DEF ReaderStep
<1>2. ASSUME NEW b \in Ballots, BallotStep(b)
      PROVE  /\ UNCHANGED <<status, stored, due, lowered>>
             /\ key' = key \/ VoteCount(b)
  BY <1>2 DEF BallotStep, VoteCheck, VoteCommit, VoteCount, Schedule, CountFails
<1>3. ASSUME NEW c \in Readers, Create(c) \/ View(c) \/ CloseBegin(c)
      PROVE  /\ \/ UNCHANGED <<status, stored, due, lowered>>
                \/ status = "none" /\ status' = "open" /\ UNCHANGED <<stored, due, lowered>>
             /\ key' = key
  BY <1>3 DEF Create, View, CloseBegin
<1>4. ASSUME UpdateWake \/ Expire \/ LoseRedis \/ Restart
      PROVE  /\ UNCHANGED <<status, stored, due, lowered>>
             /\ key' = key \/ key' = Missing
  BY <1>4 DEF UpdateWake, Expire, LoseRedis, Restart
<1> QED  BY <1>1, <1>2, <1>3, <1>4, NextIs DEF Elsewhere

(* Types *)
LEMMA TypesStep ==
  ASSUME Typed, Next
  PROVE  Typed'
<1>1. /\ ballot' \in [Ballots -> BallotType] /\ votes' \in [Accounts -> Options \cup {NoVote}]
      /\ \A b \in Ballots : ballot'[b].pc # "idle" => ballot'[b].account \in Accounts /\ ballot'[b].option \in Options
  <2>1. CASE \E b \in Ballots : BallotStep(b)
    <3>0. PICK b \in Ballots : BallotStep(b)  BY <2>1
    <3>1. PICK x \in BallotType :
           /\ ballot' = [ballot EXCEPT ![b] = x]
           /\ x.pc # "idle" => x.account \in Accounts /\ x.option \in Options
           /\ x.pc = "counting" => votes' = [votes EXCEPT ![x.account] = x.option]
           /\ x.pc # "counting" => votes' = votes
      BY <3>0, BallotGoes
    <3>2. votes' \in [Accounts -> Options \cup {NoVote}]  BY <3>1 DEF Typed
    <3> QED  BY <3>1, <3>2 DEF Typed
  <2>2. CASE Elsewhere  BY <2>2, ElsewhereKeeps DEF Typed
  <2>3. CASE Restart  BY <2>3, Records DEF Restart, Typed
  <2> QED  BY <2>1, <2>2, <2>3, NextIs
<1>2. answered' \subseteq Accounts
  <2>1. ASSUME NEW b \in Ballots, BallotStep(b) PROVE answered' \subseteq Accounts
    BY <2>1 DEF BallotStep, VoteCheck, VoteCommit, VoteCount, Schedule, CountFails, Typed
  <2> QED  BY <2>1, ElsewhereKeeps, NextIs DEF Restart, Typed
<1>3. key' = Missing \/ key' \in Tallies
  <2>1. ASSUME NEW b \in Ballots, VoteCount(b) PROVE key' \in Tallies
    <3>1. PICK o \in Options : o = ballot[b].option  BY <2>1 DEF VoteCount, Typed
    <3>2. key' = IF key = Missing THEN [Zero EXCEPT ![o] = 1] ELSE [key EXCEPT ![o] = @ + 1]
      BY <2>1, <3>1 DEF VoteCount, Incremented
    <3>3. CASE key = Missing  BY <3>2, <3>3, TallyTypes DEF Tallies
    <3>4. CASE key # Missing
      <4>1. key \in Tallies /\ key[o] \in Nat  BY <3>4 DEF Typed, Tallies
      <4> QED  BY <3>2, <3>4, <4>1 DEF Tallies
    <3> QED  BY <3>3, <3>4
  <2>2. ASSUME NEW c \in Coroutines, Fill(c) PROVE key' \in Tallies
    BY <2>2 DEF Fill, Typed, ReaderType
  <2> QED  BY <2>1, <2>2, Writers DEF Typed
<1>4. /\ status' \in {"none", "open", "closed"} /\ stored' \in Tallies /\ due' \in Tallies
      /\ lowered' \in BOOLEAN
  <2>1. ASSUME NEW c \in Coroutines, CloseCommit(c)
        PROVE  /\ status' \in {"none", "open", "closed"} /\ stored' \in Tallies /\ due' \in Tallies
               /\ lowered' \in BOOLEAN
    <3>0. reader[c] \in ReaderType /\ stored \in Tallies /\ lowered \in BOOLEAN  BY DEF Typed
    <3>1. PICK t \in Tallies : t = reader[c].tally  BY <3>0 DEF ReaderType
    <3>2. PICK l \in Tallies : l = reader[c].loaded  BY <3>0 DEF ReaderType
    <3>3. PICK d \in Tallies : d = reader[c].acked  BY <3>0 DEF ReaderType
    <3>4. status' = "closed" /\ due' = d
          /\ stored' = [o \in Options |-> IF t[o] # l[o] THEN t[o] ELSE stored[o]]
          /\ lowered' = (lowered \/ \E o \in Options : ~(t[o] # l[o]) /\ stored[o] < t[o])
      BY <2>1, <3>1, <3>2, <3>3 DEF CloseCommit
    <3>5. stored' \in Tallies  BY <3>0, <3>4 DEF Tallies
    <3>6. lowered' \in BOOLEAN  BY <3>0, <3>4
    <3> QED  BY <3>4, <3>5, <3>6
  <2>2. CASE UNCHANGED <<status, stored, due, lowered>>  BY <2>2 DEF Typed
  <2> QED  BY <2>1, <2>2, Writers DEF Typed
<1>5. torn' \in BOOLEAN /\ late' \in BOOLEAN
  <2>1. ASSUME NEW t, Note(t) PROVE torn' \in BOOLEAN /\ late' \in BOOLEAN  BY <2>1 DEF Note
  <2>2. \E t : Note(t)  BY NoteTaken
  <2> QED  BY <2>1, <2>2
<1> QED  BY <1>1, <1>2, <1>3, <1>4, <1>5, ReaderGoes DEF Typed

-----------------------------------------------------------------------------
(* Rows are only added, and a vote under way is the only one of its account. *)
Due(b) == ballot[b].pc \in {"counting", "scheduling"}

Cast ==
  /\ \A b \in Ballots : Due(b) => votes[ballot[b].account] = ballot[b].option /\ ballot[b].account \notin answered
  /\ \A p, q \in Ballots : p # q /\ Due(p) /\ Due(q) => ballot[p].account # ballot[q].account
  /\ answered \subseteq Voted

RowsGrow ==
  /\ \A a \in Voted : a \in Voted' /\ votes'[a] = votes[a]
  /\ answered \subseteq answered'
  /\ votes' = votes \/ \E b \in Ballots : VoteCommit(b)

LEMMA DueVoted ==
  ASSUME Typed, Cast, NEW b \in Ballots, Due(b)
  PROVE  ballot[b].account \in Voted /\ ballot[b].option \in Options
BY NamesAssumption DEF Typed, Cast, Due, Voted

LEMMA RowsStep ==
  ASSUME Typed, Cast, Next
  PROVE  Cast' /\ RowsGrow
<1>1. ASSUME NEW b \in Ballots, BallotStep(b), ~Schedule(b) PROVE Cast' /\ RowsGrow
  <2>1. PICK x \in BallotType :
           /\ ballot' = [ballot EXCEPT ![b] = x]
           /\ x.pc # "idle" => x.account \in Accounts /\ x.option \in Options
           /\ x.pc = "counting" =>
                /\ VoteCommit(b) /\ SameVote(x, b) /\ votes[x.account] = NoVote
                /\ votes' = [votes EXCEPT ![x.account] = x.option]
           /\ x.pc = "scheduling" => VoteCount(b) /\ SameVote(x, b)
           /\ x.pc # "counting" => votes' = votes
    BY <1>1, BallotGoes
  <2>2. answered' = answered
    BY <1>1 DEF BallotStep, VoteCheck, VoteCommit, VoteCount, CountFails
  <2>3. /\ ballot'[b] = x /\ \A q \in Ballots : q # b => ballot'[q] = ballot[q]
        /\ answered \subseteq Voted /\ Voted \subseteq Accounts
    BY <2>1 DEF Typed, Cast, Voted
  <2>4. \A a \in Voted : a \in Voted' /\ votes'[a] = votes[a]
    <3>1. CASE x.pc = "counting"
      <4>1. \A a \in Accounts : a # x.account => votes'[a] = votes[a]  BY <2>1, <3>1 DEF Typed
      <4>2. x.account \notin Voted  BY <2>1, <3>1 DEF Voted
      <4> QED  BY <4>1, <4>2 DEF Voted
    <3>2. CASE x.pc # "counting"  BY <2>1, <3>2 DEF Voted
    <3> QED  BY <3>1, <3>2
  <2>5. ASSUME NEW q \in Ballots, q # b, Due(q)'
        PROVE  /\ Due(q) /\ ballot'[q] = ballot[q] /\ ballot[q].account \in Voted
               /\ votes'[ballot[q].account] = ballot[q].option /\ ballot[q].account \notin answered
    <3>1. Due(q) /\ ballot'[q] = ballot[q]  BY <2>3, <2>5 DEF Due
    <3> QED  BY <2>4, <3>1, DueVoted DEF Cast
  <2>6. ASSUME Due(b)'
        PROVE  /\ votes'[x.account] = x.option /\ x.account \notin answered
               /\ \A q \in Ballots : q # b /\ Due(q) => ballot[q].account # x.account
    <3>1. CASE x.pc = "counting"
      <4>1. votes'[x.account] = x.option  BY <2>1, <3>1 DEF Typed
      <4>2. x.account \notin Voted  BY <2>1, <3>1 DEF Voted
      <4> QED  BY <2>3, <4>1, <4>2, DueVoted
    <3>2. CASE x.pc = "scheduling"
      <4>1. Due(b) /\ x.account = ballot[b].account /\ x.option = ballot[b].option /\ votes' = votes
        BY <2>1, <3>2 DEF VoteCount, Due, SameVote
      <4> QED  BY <4>1 DEF Cast
    <3>3. x.pc \in {"counting", "scheduling"}  BY <2>3, <2>6 DEF Due
    <3> QED  BY <3>1, <3>2, <3>3
  <2>7. ASSUME NEW q \in Ballots, Due(q)'
        PROVE  votes'[ballot'[q].account] = ballot'[q].option /\ ballot'[q].account \notin answered'
    BY <2>2, <2>3, <2>5, <2>6, <2>7
  <2>8. ASSUME NEW p \in Ballots, NEW q \in Ballots, p # q, Due(p)', Due(q)'
        PROVE  ballot'[p].account # ballot'[q].account
    <3>1. CASE p = b  BY <2>3, <2>5, <2>6, <2>8, <3>1
    <3>2. CASE q = b  BY <2>3, <2>5, <2>6, <2>8, <3>2
    <3>3. CASE p # b /\ q # b  BY <2>5, <2>8, <3>3 DEF Cast
    <3> QED  BY <3>1, <3>2, <3>3
  <2>9. answered' \subseteq Voted'  BY <2>2, <2>3, <2>4
  <2>10. Cast'  BY <2>7, <2>8, <2>9 DEF Cast
  <2>11. votes' = votes \/ VoteCommit(b)  BY <2>1
  <2> QED  BY <2>2, <2>4, <2>10, <2>11 DEF RowsGrow
<1>2. ASSUME NEW b \in Ballots, Schedule(b) PROVE Cast' /\ RowsGrow
  <2>1. /\ ballot' = [ballot EXCEPT ![b] = NoBallot] /\ votes' = votes
        /\ answered' = answered \cup {ballot[b].account} /\ Due(b)
    BY <1>2 DEF Schedule, Due
  <2>2. ballot[b].account \in Voted /\ Voted' = Voted  BY <2>1, DueVoted DEF Voted
  <2>3. \A q \in Ballots : Due(q)' => q # b /\ Due(q) /\ ballot'[q] = ballot[q]
    <3>1. ballot'[b].pc = "idle" /\ \A q \in Ballots : q # b => ballot'[q] = ballot[q]
      BY <2>1, Records DEF Typed
    <3> QED  BY <3>1 DEF Due
  <2> QED  BY <2>1, <2>2, <2>3 DEF Cast, RowsGrow
<1>3. CASE Elsewhere
  BY <1>3, ElsewhereKeeps DEF Cast, Due, Voted, RowsGrow
<1>4. CASE Restart
  <2>1. UNCHANGED <<votes, answered>> /\ \A b \in Ballots : ~Due(b)'
    BY <1>4, Records DEF Restart, Due
  <2> QED  BY <2>1 DEF Cast, Voted, RowsGrow
<1> QED  BY <1>1, <1>2, <1>3, <1>4, NextIs

(* So the counts of the rows only grow, those of the answered votes too. *)
Acked(o) == {a \in answered : votes[a] = o}

LEMMA AckedSize ==
  ASSUME answered \subseteq Accounts, NEW o \in Options
  PROVE  /\ CountOf(answered)[o] = Cardinality(Acked(o)) /\ CountOf(answered)[o] \in Nat
         /\ IsFiniteSet(Acked(o))
<1>1. CountOf(answered)[o] = Cardinality(Acked(o))  BY DEF CountOf, Acked
<1>2. IsFiniteSet(Acked(o))  BY FinitenessAssumption, FS_Subset DEF Acked
<1> QED  BY <1>1, <1>2, FS_CardinalityType

LEMMA CountsGrow ==
  ASSUME Typed, Typed', Cast, RowsGrow, NEW o \in Options
  PROVE  /\ Counts[o] <= Counts'[o]
         /\ CountOf(answered)[o] <= CountOf(answered)'[o]
<1>1. Counts'[o] = Cardinality(Ayes(o)') /\ IsFiniteSet(Ayes(o)')
  <2>1. Counts'[o] = Cardinality(Ayes(o)')  BY DEF Counts, CountOf, Ayes
  <2>2. IsFiniteSet(Ayes(o)')  BY FinitenessAssumption, FS_Subset DEF Ayes, Voted
  <2> QED  BY <2>1, <2>2
<1>2. CountOf(answered)'[o] = Cardinality(Acked(o)') /\ IsFiniteSet(Acked(o)')
  <2>1. CountOf(answered)'[o] = Cardinality(Acked(o)')  BY DEF CountOf, Acked
  <2>2. IsFiniteSet(Acked(o)')  BY FinitenessAssumption, FS_Subset DEF Acked, Typed
  <2> QED  BY <2>1, <2>2
<1>3. Ayes(o) \subseteq Ayes(o)'  BY DEF Ayes, RowsGrow
<1>4. Acked(o) \subseteq Acked(o)'  BY DEF Acked, RowsGrow, Cast
<1>5. Cardinality(Ayes(o)) <= Cardinality(Ayes(o)')  BY <1>1, <1>3, FS_Subset
<1>6. Cardinality(Acked(o)) <= Cardinality(Acked(o)')  BY <1>2, <1>4, FS_Subset
<1> QED  BY <1>1, <1>2, <1>5, <1>6, Sizes, AckedSize DEF Typed

(* The accounts of the votes for o that wait for their increment *)
Carriers(o) == {ballot[b].account : b \in Waiting(o)}

LEMMA CarriersAre ==
  ASSUME Typed, Cast, NEW o \in Options
  PROVE  /\ IsFiniteSet(Carriers(o)) /\ Cardinality(Carriers(o)) = InFlight(o)
         /\ Carriers(o) \subseteq Ayes(o) /\ Carriers(o) \cap Acked(o) = {}
<1>1. PICK f : f = [b \in Waiting(o) |-> ballot[b].account]  OBVIOUS
<1>2. f \in [Waiting(o) -> Carriers(o)]  BY <1>1 DEF Carriers
<1>3. \A p, q \in Waiting(o) : f[p] = f[q] => p = q  BY <1>1 DEF Waiting, Cast, Due
<1>4. \A a \in Carriers(o) : \E b \in Waiting(o) : f[b] = a  BY <1>1 DEF Carriers
<1>5. ExistsBijection(Waiting(o), Carriers(o))
  BY <1>2, <1>3, <1>4 DEF ExistsBijection, Bijection, Injection, IsInjective, Surjection
<1>6. IsFiniteSet(Carriers(o)) /\ Cardinality(Carriers(o)) = InFlight(o)
  BY <1>5, Sizes, FS_Bijection
<1>7. ASSUME NEW b \in Waiting(o) PROVE ballot[b].account \in Ayes(o) /\ ballot[b].account \notin answered
  <2>1. b \in Ballots /\ Due(b) /\ ballot[b].option = o  BY DEF Waiting, Due
  <2> QED  BY <2>1, DueVoted DEF Ayes, Cast
<1> QED  BY <1>6, <1>7 DEF Carriers, Acked

LEMMA AckedAndWaiting ==
  ASSUME Typed, Cast, NEW o \in Options
  PROVE  CountOf(answered)[o] + InFlight(o) <= Counts[o]
<1>1. IsFiniteSet(Acked(o)) /\ CountOf(answered)[o] = Cardinality(Acked(o)) /\ Cardinality(Acked(o)) \in Nat
  BY AckedSize DEF Typed
<1>2. /\ IsFiniteSet(Carriers(o)) /\ Cardinality(Carriers(o)) = InFlight(o)
      /\ Carriers(o) \subseteq Ayes(o) /\ Carriers(o) \cap Acked(o) = {}
  BY CarriersAre
<1>3. Acked(o) \subseteq Ayes(o)  BY DEF Acked, Ayes, Cast
<1>4. Cardinality(Acked(o) \cup Carriers(o)) =
        Cardinality(Acked(o)) + Cardinality(Carriers(o)) - Cardinality(Acked(o) \cap Carriers(o))
  BY <1>1, <1>2, FS_Union
<1>5. Cardinality(Acked(o) \cap Carriers(o)) = 0  BY <1>2, FS_EmptySet
<1>6. Cardinality(Acked(o) \cup Carriers(o)) <= Cardinality(Ayes(o))
  BY <1>2, <1>3, Sizes, FS_Subset
<1> QED  BY <1>1, <1>2, <1>4, <1>5, <1>6, Sizes

-----------------------------------------------------------------------------
(* The hash lacks the votes that wait for their increment, nothing else. *)
Exact ==
  ~torn =>
    /\ ~(Rebuilding /\ Counting)
    /\ key # Missing => \A o \in Options : key[o] + InFlight(o) = Counts[o]
    /\ \A c \in Coroutines : reader[c].pc = "filling" => reader[c].tally = Counts

LEMMA SizesThen ==
  ASSUME Typed', NEW o \in Options
  PROVE  /\ Counts'[o] = Cardinality(Ayes(o)') /\ Counts'[o] \in Nat /\ IsFiniteSet(Ayes(o)')
         /\ InFlight(o)' = Cardinality(Waiting(o)') /\ InFlight(o)' \in Nat /\ IsFiniteSet(Waiting(o)')
<1>1. Counts'[o] = Cardinality(Ayes(o)')  BY DEF Counts, CountOf, Ayes
<1>2. InFlight(o)' = Cardinality(Waiting(o)')  BY DEF InFlight, Waiting
<1>3. IsFiniteSet(Ayes(o)')  BY FinitenessAssumption, FS_Subset DEF Ayes, Voted
<1>4. IsFiniteSet(Waiting(o)')  BY FinitenessAssumption, FS_Subset DEF Waiting
<1> QED  BY <1>1, <1>2, <1>3, <1>4, FS_CardinalityType

(* A vote that is committed adds one row and one increment to come. *)
LEMMA CommitAdds ==
  ASSUME Typed, Typed', NEW b \in Ballots, VoteCommit(b), votes' # votes, NEW o \in Options
  PROVE  /\ ballot'[b].pc = "counting"
         /\ ballot[b].option = o => Counts'[o] = Counts[o] + 1 /\ InFlight(o)' = InFlight(o) + 1
         /\ ballot[b].option # o => Counts'[o] = Counts[o] /\ InFlight(o)' = InFlight(o)
<1>1. PICK x \in BallotType :
         /\ ballot' = [ballot EXCEPT ![b] = x]
         /\ x.pc # "idle" => x.account \in Accounts /\ x.option \in Options
         /\ x.pc = "counting" =>
              /\ VoteCommit(b) /\ SameVote(x, b) /\ votes[x.account] = NoVote
              /\ votes' = [votes EXCEPT ![x.account] = x.option]
         /\ x.pc # "counting" => votes' = votes
  BY BallotGoes DEF BallotStep
<1>2. x.pc = "counting" /\ ballot[b].pc = "checked"  BY <1>1 DEF VoteCommit
<1>3. x.account \in Accounts /\ x.option = ballot[b].option /\ x.option # NoVote /\ x.account \notin Voted
  BY <1>1, <1>2, NamesAssumption DEF SameVote, Voted
<1>4. \A a \in Accounts : votes'[a] = IF a = x.account THEN x.option ELSE votes[a]
  BY <1>1, <1>2 DEF Typed
<1>5. \A q \in Ballots : ballot'[q] = IF q = b THEN x ELSE ballot[q]  BY <1>1 DEF Typed
<1>6. CASE ballot[b].option = o
  <2>1. Ayes(o)' = Ayes(o) \cup {x.account} /\ x.account \notin Ayes(o)  BY <1>3, <1>4, <1>6 DEF Ayes, Voted
  <2>2. Waiting(o)' = Waiting(o) \cup {b} /\ b \notin Waiting(o)  BY <1>2, <1>3, <1>5, <1>6 DEF Waiting
  <2>3. Cardinality(Ayes(o)') = Cardinality(Ayes(o)) + 1  BY <2>1, Sizes, FS_AddElement
  <2>4. Cardinality(Waiting(o)') = Cardinality(Waiting(o)) + 1  BY ZenonT(30), <2>2, Sizes, FS_AddElement
  <2> QED  BY <1>2, <1>5, <1>6, <2>3, <2>4, Sizes, SizesThen
<1>7. CASE ballot[b].option # o
  <2>1. Ayes(o)' = Ayes(o)  BY <1>3, <1>4, <1>7 DEF Ayes, Voted
  <2>2. Waiting(o)' = Waiting(o)  BY <1>2, <1>3, <1>5, <1>7 DEF Waiting
  <2> QED  BY <1>2, <1>5, <1>7, <2>1, <2>2, Sizes, SizesThen
<1> QED  BY <1>6, <1>7

(* Rows that stay have the same counts; requests that stay, the same number. *)
LEMMA CountsStay ==
  ASSUME votes' = votes
  PROVE  Counts' = Counts
BY DEF Counts, CountOf, Voted

LEMMA FlightStays ==
  ASSUME Typed', NEW o \in Options, Waiting(o)' = Waiting(o)
  PROVE  InFlight(o)' = InFlight(o)
BY Sizes, SizesThen

(* A hash that is missing and lost no other vote: every row waits. *)
LEMMA AllWait ==
  ASSUME Typed, Cast, key = Missing, NEW b \in Ballots, ~LosesOthers(b), NEW o \in Options
  PROVE  Counts[o] = InFlight(o)
<1>1. ASSUME NEW a \in Ayes(o) PROVE a \in Carriers(o)
  <2>1. PICK q \in Ballots : ballot[q].pc = "counting" /\ ballot[q].account = a
    BY DEF LosesOthers, Ayes
  <2>2. ballot[q].option = o  BY <2>1 DEF Cast, Due, Ayes
  <2> QED  BY <2>1, <2>2 DEF Carriers, Waiting
<1>2. Carriers(o) = Ayes(o)  BY <1>1, CarriersAre
<1> QED  BY <1>2, CarriersAre, Sizes

LEMMA CountKeepsExact ==
  ASSUME Typed, Typed', Cast, Exact, NEW b \in Ballots, VoteCount(b), ~torn'
  PROVE  \A o \in Options : key'[o] + InFlight(o)' = Counts'[o]
<1>0. ~torn /\ ~LosesOthers(b)  BY DEF VoteCount, Same, Note
<1>1. PICK p \in Options : p = ballot[b].option  BY DEF VoteCount, Typed
<1>2. /\ key' = IF key = Missing THEN [Zero EXCEPT ![p] = 1] ELSE [key EXCEPT ![p] = @ + 1]
      /\ ballot' = [ballot EXCEPT ![b].pc = "scheduling"] /\ ballot[b].pc = "counting" /\ votes' = votes
  BY <1>1 DEF VoteCount, Incremented
<1>3. PICK x : x = [ballot[b] EXCEPT !.pc = "scheduling"]  OBVIOUS
<1>4. x.pc = "scheduling"  BY <1>3 DEF Typed, BallotType
<1>5. \A q \in Ballots : ballot'[q] = IF q = b THEN x ELSE ballot[q]  BY <1>2, <1>3 DEF Typed
<1>6. TAKE o \in Options
<1>7. CASE o = p
  <2>1. Waiting(o)' = Waiting(o) \ {b} /\ b \in Waiting(o)  BY <1>1, <1>2, <1>4, <1>5, <1>7 DEF Waiting
  <2>2. Cardinality(Waiting(o)') = Cardinality(Waiting(o)) - 1  BY <2>1, Sizes, FS_RemoveElement
  <2>3. InFlight(o)' = InFlight(o) - 1 /\ Counts'[o] = Counts[o]  BY <1>2, <2>2, Sizes, SizesThen, CountsStay
  <2>4. CASE key = Missing
    <3>1. key'[o] = 1  BY <1>2, <1>7, <2>4 DEF Zero
    <3>2. Counts[o] = InFlight(o)  BY <1>0, <2>4, AllWait
    <3> QED  BY <2>3, <3>1, <3>2, Sizes
  <2>5. CASE key # Missing
    <3>1. key \in Tallies /\ key[o] \in Nat  BY <2>5 DEF Typed, Tallies
    <3>2. key'[o] = key[o] + 1  BY <1>2, <1>7, <2>5, <3>1 DEF Tallies
    <3>3. key[o] + InFlight(o) = Counts[o]  BY <1>0, <2>5 DEF Exact
    <3> QED  BY <2>3, <3>1, <3>2, <3>3, Sizes
  <2> QED  BY <2>4, <2>5
<1>8. CASE o # p
  <2>1. Waiting(o)' = Waiting(o)  BY <1>1, <1>2, <1>4, <1>5, <1>8 DEF Waiting
  <2>2. InFlight(o)' = InFlight(o) /\ Counts'[o] = Counts[o]  BY <1>2, <2>1, FlightStays, CountsStay
  <2>3. CASE key = Missing
    <3>1. key'[o] = 0  BY <1>2, <1>8, <2>3 DEF Zero
    <3>2. Counts[o] = InFlight(o)  BY <1>0, <2>3, AllWait
    <3> QED  BY <2>2, <3>1, <3>2, Sizes
  <2>4. CASE key # Missing
    <3>1. key'[o] = key[o]  BY <1>2, <1>8, <2>4 DEF Typed, Tallies
    <3>2. key[o] + InFlight(o) = Counts[o]  BY <1>0, <2>4 DEF Exact
    <3> QED  BY <2>2, <3>1, <3>2
  <2> QED  BY <2>3, <2>4
<1> QED  BY <1>7, <1>8

(* No request waits for its increment: the hash is the rows. *)
LEMMA NoneWait ==
  ASSUME ~Counting, NEW o \in Options
  PROVE  Waiting(o) = {} /\ InFlight(o) = 0
<1>1. Waiting(o) = {}  BY DEF Waiting, Counting
<1> QED  BY <1>1, Sizes, FS_EmptySet

(* Steps that neither commit a vote nor count one *)
LEMMA FlightKept ==
  ASSUME Typed, Typed', Next, ~torn', votes' = votes, \A b \in Ballots : ~VoteCount(b), NEW o \in Options
  PROVE  InFlight(o)' = InFlight(o)
<1>1. ASSUME NEW b \in Ballots, BallotStep(b) PROVE Waiting(o)' = Waiting(o)
  <2>0. ~CountFails(b)  BY DEF CountFails, Note
  <2>1. PICK x \in BallotType :
           /\ ballot' = [ballot EXCEPT ![b] = x]
           /\ x.pc # "idle" => x.account \in Accounts /\ x.option \in Options
           /\ x.pc = "counting" =>
                /\ VoteCommit(b) /\ SameVote(x, b) /\ votes[x.account] = NoVote
                /\ votes' = [votes EXCEPT ![x.account] = x.option]
           /\ x.pc = "scheduling" => VoteCount(b) /\ SameVote(x, b)
    BY <1>1, BallotGoes
  <2>2. x.pc # "counting"
    <3>1. x.pc = "counting" => votes'[x.account] = x.option /\ x.option # votes[x.account]
      BY <2>1, NamesAssumption DEF Typed
    <3> QED  BY <3>1
  <2>3. ballot[b].pc # "counting"
    BY <1>1, <2>0 DEF BallotStep, VoteCheck, VoteCommit, Schedule
  <2>4. \A q \in Ballots : ballot'[q] = IF q = b THEN x ELSE ballot[q]  BY <2>1 DEF Typed
  <2> QED  BY <2>2, <2>3, <2>4 DEF Waiting
<1>2. ASSUME Elsewhere PROVE Waiting(o)' = Waiting(o)  BY <1>2, ElsewhereKeeps DEF Waiting
<1>3. ASSUME Restart PROVE Waiting(o)' = Waiting(o)
  <2>1. ~Counting  BY <1>3 DEF Restart, Note
  <2>2. Waiting(o)' = {}  BY <1>3, Records DEF Restart, Waiting
  <2> QED  BY <2>1, <2>2, NoneWait
<1> QED  BY <1>1, <1>2, <1>3, NextIs, FlightStays

LEMMA ExactStep ==
  ASSUME Typed, Typed', Cast, Exact, Next
  PROVE  Exact'
<1> SUFFICES ASSUME ~torn'
             PROVE  /\ ~(Rebuilding' /\ Counting')
                    /\ key' # Missing => \A o \in Options : key'[o] + InFlight(o)' = Counts'[o]
                    /\ \A c \in Coroutines : reader'[c].pc = "filling" => reader'[c].tally = Counts'
  BY DEF Exact
<1>1. ~torn /\ ~(Rebuilding' /\ Counting')  BY Notes
<1>2. ASSUME NEW c \in Coroutines, reader'[c].pc = "filling" PROVE reader'[c].tally = Counts'
  <2>1. votes' = votes
    <3>1. ASSUME NEW b \in Ballots, VoteCommit(b), votes' # votes PROVE FALSE
      <4>1. PICK o : o = ballot[b].option  OBVIOUS
      <4>2. o \in Options  BY <3>1, <4>1 DEF VoteCommit, Typed
      <4>3. ballot'[b].pc = "counting"  BY <3>1, <4>2, CommitAdds
      <4>4. Counting' /\ Rebuilding'  BY <1>2, <4>3 DEF Counting, Rebuilding
      <4> QED  BY <1>1, <4>4
    <3> QED  BY <3>1, RowsStep DEF RowsGrow
  <2>2. Counts' = Counts  BY <2>1, CountsStay
  <2> QED  BY <1>1, <1>2, <2>2, ReaderGoes DEF Exact, Goes
<1>3. ASSUME key' # Missing, NEW o \in Options PROVE key'[o] + InFlight(o)' = Counts'[o]
  <2>1. CASE \E b \in Ballots : VoteCount(b)  BY <2>1, CountKeepsExact
  <2>2. CASE \E c \in Coroutines : Fill(c)
    <3>1. PICK c \in Coroutines : Fill(c)  BY <2>2
    <3>2. reader[c].pc = "filling" /\ key' = reader[c].tally /\ UNCHANGED <<votes, ballot>>  BY <3>1 DEF Fill
    <3>3. ~Counting  BY <1>1, <3>2 DEF Exact, Rebuilding
    <3>4. ~Counting'  BY <3>2, <3>3 DEF Counting
    <3>5. Waiting(o)' = Waiting(o)  BY <3>2 DEF Waiting
    <3>6. InFlight(o)' = 0  BY <3>3, <3>5, NoneWait, FlightStays
    <3>7. key' = Counts /\ Counts' = Counts  BY <1>1, <3>2, CountsStay DEF Exact
    <3> QED  BY <3>6, <3>7, SizesThen
  <2>3. CASE key' = key /\ (\A b \in Ballots : ~VoteCount(b))
    <3>1. key[o] + InFlight(o) = Counts[o] /\ key[o] \in Nat  BY <1>1, <1>3, <2>3 DEF Exact, Typed, Tallies
    <3>2. CASE votes' = votes  BY <2>3, <3>1, <3>2, FlightKept, CountsStay
    <3>3. ASSUME NEW b \in Ballots, VoteCommit(b), votes' # votes PROVE key'[o] + InFlight(o)' = Counts'[o]
      <4>1. \/ Counts'[o] = Counts[o] + 1 /\ InFlight(o)' = InFlight(o) + 1
            \/ Counts'[o] = Counts[o] /\ InFlight(o)' = InFlight(o)
        BY <3>3, CommitAdds
      <4> QED  BY <2>3, <3>1, <4>1, Sizes
    <3> QED  BY <3>2, <3>3, RowsStep DEF RowsGrow
  <2> QED  BY <1>3, <2>1, <2>2, <2>3, Writers
<1> QED  BY <1>1, <1>2, <1>3

-----------------------------------------------------------------------------
(* While no vote is under way during a close, the rows stand still. *)
Quiet ==
  ~late => (Closing => ~Voting) /\ (status = "closed" => ~Voting)

LEMMA QuietStep ==
  ASSUME Typed, Quiet, Next
  PROVE  Quiet'
<1> SUFFICES ASSUME ~late'
             PROVE  (Closing' => ~Voting') /\ (status' = "closed" => ~Voting')
  BY DEF Quiet
<1>1. ~late /\ ~(Closing' /\ Voting')  BY Notes
<1>2. ASSUME status' = "closed", Voting' PROVE FALSE
  <2>1. Voting  BY <1>2, VotingComes
  <2>2. status # "closed"  BY <1>1, <2>1 DEF Quiet
  <2>3. PICK c \in Coroutines : CloseCommit(c)  BY <1>2, <2>2, Writers
  <2>4. Closing  BY <2>3 DEF CloseCommit, At, Closing
  <2> QED  BY <1>1, <2>1, <2>4 DEF Quiet
<1> QED  BY <1>1, <1>2

LEMMA QuietRows ==
  ASSUME Typed, Cast, Quiet, Next, ~late', Closing \/ status = "closed"
  PROVE  votes' = votes
<1>1. ~late  BY Notes
<1>2. ~Voting  BY <1>1 DEF Quiet
<1>3. ASSUME NEW b \in Ballots, VoteCommit(b) PROVE FALSE  BY <1>2, <1>3 DEF VoteCommit, Voting
<1> QED  BY <1>3, RowsStep DEF RowsGrow

-----------------------------------------------------------------------------
(* What a closer has found lies between the votes that were answered when   *)
(* it set out and the rows; so does what it writes.                         *)
Counted(c) ==
  /\ \A o \in Options : reader[c].acked[o] <= CountOf(answered)[o]
  /\ status # "closed" => reader[c].loaded = Zero
  /\ reader[c].pc = "tallied" /\ ~torn =>
       \A o \in Options : reader[c].acked[o] <= reader[c].tally[o] /\ reader[c].tally[o] <= Counts[o]
  /\ reader[c].pc = "tallied" /\ ~torn /\ ~late => reader[c].tally = Counts

Closers == \A c \in Coroutines : Closes(c) => Counted(c)

Result ==
  /\ status # "closed" => stored = Zero
  /\ ~torn /\ status = "closed" => \A o \in Options : stored[o] <= Counts[o]
  /\ ~torn /\ ~lowered /\ status = "closed" => \A o \in Options : due[o] <= stored[o]
  /\ ~torn /\ ~late /\ status = "closed" => stored = Counts

IInv == Typed /\ Cast /\ Exact /\ Quiet /\ Closers /\ Result

(* What a closer reads *)
LEMMA ReadIsBetween ==
  ASSUME IInv, NEW c \in Coroutines, Closes(c), Reads(c), ~torn
  PROVE  /\ votes' = votes
         /\ \A o \in Options : CountOf(answered)[o] <= reader'[c].tally[o] /\ reader'[c].tally[o] <= Counts[o]
         /\ ~late => reader'[c].tally = Counts
<1>1. votes' = votes  BY DEF Reads, HGetAll, ReadRows, Fill
<1>2. \A o \in Options : /\ CountOf(answered)[o] \in Nat /\ InFlight(o) \in Nat /\ Counts[o] \in Nat
                         /\ CountOf(answered)[o] + InFlight(o) <= Counts[o]
  BY Sizes, AckedSize, AckedAndWaiting DEF IInv, Typed
<1>3. CASE reader'[c].tally = Counts  BY <1>1, <1>2, <1>3
<1>4. CASE reader'[c].tally # Counts
  <2>1. key # Missing /\ reader'[c].tally = key /\ key \in Tallies
    BY <1>4 DEF Reads, Fill, IInv, Exact, Typed
  <2>2. \A o \in Options : key[o] \in Nat /\ key[o] + InFlight(o) = Counts[o]
    BY <2>1 DEF IInv, Exact, Tallies
  <2>3. \A o \in Options : CountOf(answered)[o] <= key[o] /\ key[o] <= Counts[o]  BY <1>2, <2>2
  <2>4. ASSUME ~late PROVE key = Counts
    <3>1. ~Counting  BY <2>4 DEF IInv, Quiet, Closing, Closes, Voting, Counting
    <3>2. \A o \in Options : key[o] = Counts[o]  BY <1>2, <2>2, <3>1, NoneWait
    <3>3. Counts \in Tallies  BY TallyTypes
    <3> QED  BY <2>1, <3>2, <3>3 DEF Tallies
  <2> QED  BY <1>1, <2>1, <2>3, <2>4
<1> QED  BY <1>3, <1>4

LEMMA ClosersStep ==
  ASSUME IInv, Typed', Next
  PROVE  Closers'
<1> SUFFICES ASSUME NEW c \in Coroutines, Closes(c)'  PROVE Counted(c)'
  BY DEF Closers
<1> USE DEF IInv
<1>1. RowsGrow /\ (~torn' => ~torn) /\ (~late' => ~late)  BY RowsStep, Notes
<1>2. status' # "closed" => status # "closed"  BY Writers DEF CloseCommit
<1>3. \A o \in Options : /\ CountOf(answered)[o] <= CountOf(answered)'[o] /\ Counts[o] <= Counts'[o]
                         /\ CountOf(answered)[o] \in Nat /\ CountOf(answered)'[o] \in Nat
                         /\ Counts[o] \in Nat /\ Counts'[o] \in Nat
  <2>1. TAKE o \in Options
  <2>2. CountOf(answered)'[o] \in Nat
    <3>1. CountOf(answered)'[o] = Cardinality(Acked(o)')  BY DEF CountOf, Acked
    <3>2. IsFiniteSet(Acked(o)')  BY FinitenessAssumption, FS_Subset DEF Acked, Typed
    <3> QED  BY <3>1, <3>2, FS_CardinalityType
  <2> QED  BY <1>1, <2>2, CountsGrow, Sizes, SizesThen, AckedSize DEF Typed
<1>4. \A o \in Options : reader[c].acked[o] \in Nat /\ reader'[c].acked[o] \in Nat /\ reader'[c].tally[o] \in Nat
  <2>1. reader[c] \in ReaderType /\ reader'[c] \in ReaderType  BY ReaderGoes DEF Typed
  <2> QED  BY <2>1 DEF ReaderType, Tallies
<1>5. CASE reader'[c] = reader[c]
  <2>1. Closes(c) /\ Counted(c)  BY <1>5 DEF Closes, Closers
  <2>2. \A o \in Options : reader'[c].acked[o] <= CountOf(answered)'[o]
    BY <1>3, <1>4, <1>5, <2>1 DEF Counted
  <2>3. status' # "closed" => reader'[c].loaded = Zero  BY <1>2, <1>5, <2>1 DEF Counted
  <2>4. ASSUME reader'[c].pc = "tallied", ~torn'
        PROVE  \A o \in Options : reader'[c].acked[o] <= reader'[c].tally[o] /\ reader'[c].tally[o] <= Counts'[o]
    <3>1. \A o \in Options : reader[c].acked[o] <= reader[c].tally[o] /\ reader[c].tally[o] <= Counts[o]
      BY <1>1, <1>5, <2>1, <2>4 DEF Counted
    <3> QED  BY <1>3, <1>4, <1>5, <3>1
  <2>5. ASSUME reader'[c].pc = "tallied", ~torn', ~late'
        PROVE  reader'[c].tally = Counts'
    <3>1. Closing  BY <2>1 DEF Closing, Closes
    <3>2. Counts' = Counts  BY <2>5, <3>1, QuietRows, CountsStay
    <3> QED  BY <1>1, <1>5, <2>1, <2>5, <3>2 DEF Counted
  <2> QED  BY <2>2, <2>3, <2>4, <2>5 DEF Counted
<1>6. CASE SetsOut(c)
  <2>1. \A o \in Options : reader'[c].acked[o] <= CountOf(answered)'[o]  BY <1>3, <1>6 DEF SetsOut
  <2> QED  BY <1>6, <2>1 DEF SetsOut, Counted
<1>7. CASE GoesOn(c)
  <2>1. Closes(c) /\ Counted(c) /\ reader'[c].acked = reader[c].acked  BY <1>7 DEF GoesOn, Closers
  <2>2. \A o \in Options : reader'[c].acked[o] <= CountOf(answered)'[o]
    BY <1>3, <1>4, <2>1 DEF Counted
  <2>3. status' # "closed" => reader'[c].loaded = Zero  BY <1>2, <1>7, <2>1 DEF GoesOn, Counted, Result
  <2>4. ASSUME reader'[c].pc = "tallied", ~torn'
        PROVE  /\ \A o \in Options : reader'[c].acked[o] <= reader'[c].tally[o] /\ reader'[c].tally[o] <= Counts'[o]
               /\ ~late' => reader'[c].tally = Counts'
    <3>1. Reads(c) /\ ~torn  BY <1>1, <1>7, <2>4 DEF GoesOn
    <3>2. /\ votes' = votes
          /\ \A o \in Options : CountOf(answered)[o] <= reader'[c].tally[o] /\ reader'[c].tally[o] <= Counts[o]
          /\ ~late => reader'[c].tally = Counts
      BY <2>1, <3>1, ReadIsBetween
    <3>3. Counts' = Counts  BY <3>2, CountsStay
    <3>4. \A o \in Options : reader[c].acked[o] <= CountOf(answered)[o]  BY <2>1 DEF Counted
    <3> QED  BY <1>1, <1>3, <1>4, <2>1, <3>2, <3>3, <3>4
  <2> QED  BY <2>2, <2>3, <2>4 DEF Counted
<1>8. reader'[c] = reader[c] \/ SetsOut(c) \/ GoesOn(c)  BY ReaderGoes DEF Goes, Closes
<1> QED  BY <1>5, <1>6, <1>7, <1>8

(* The commit of a close *)
LEMMA CommitIs ==
  ASSUME IInv, Typed', NEW c \in Coroutines, CloseCommit(c), ~torn'
  PROVE  /\ \A o \in Options : stored'[o] <= Counts'[o]
         /\ ~lowered' => \A o \in Options : due'[o] <= stored'[o]
         /\ ~late' => stored' = Counts' /\ (status = "closed" => stored' = stored)
<1> USE DEF IInv
<1>0. reader[c] \in ReaderType /\ stored \in Tallies  BY DEF Typed
<1>1. PICK t \in Tallies : t = reader[c].tally  BY <1>0 DEF ReaderType
<1>2. PICK l \in Tallies : l = reader[c].loaded  BY <1>0 DEF ReaderType
<1>3. PICK d \in Tallies : d = reader[c].acked  BY <1>0 DEF ReaderType
<1>4. due' = d
      /\ stored' = [o \in Options |-> IF t[o] # l[o] THEN t[o] ELSE stored[o]]
      /\ lowered' = (lowered \/ \E o \in Options : ~(t[o] # l[o]) /\ stored[o] < t[o])
      /\ votes' = votes
  BY <1>1, <1>2, <1>3 DEF CloseCommit
<1>5. ~torn /\ (~late' => ~late)  BY DEF CloseCommit, Same, Note
<1>6. Closes(c) /\ reader[c].pc = "tallied"  BY DEF CloseCommit, At, Closes
<1>7. Counted(c) /\ Counts' = Counts  BY <1>4, <1>6, CountsStay DEF Closers
<1>8. \A o \in Options : d[o] <= t[o] /\ t[o] <= Counts[o] /\ stored[o] <= Counts[o]
  <2>1. \A o \in Options : d[o] <= t[o] /\ t[o] <= Counts[o]  BY <1>1, <1>3, <1>5, <1>6, <1>7 DEF Counted
  <2>2. ASSUME NEW o \in Options PROVE stored[o] <= Counts[o]
    <3>1. CASE status = "closed"  BY <1>5, <3>1 DEF Result
    <3>2. CASE status # "closed"
      <4>1. stored[o] = 0  BY <3>2 DEF Result, Zero
      <4> QED  BY <4>1, Sizes
    <3> QED  BY <3>1, <3>2
  <2> QED  BY <2>1, <2>2
<1>9. \A o \in Options : d[o] \in Nat /\ t[o] \in Nat /\ l[o] \in Nat /\ stored[o] \in Nat /\ Counts[o] \in Nat
  BY <1>0, Sizes DEF Tallies
<1>10. \A o \in Options : stored'[o] = IF t[o] # l[o] THEN t[o] ELSE stored[o]  BY <1>4
<1>11. ASSUME ~lowered', NEW o \in Options PROVE due'[o] <= stored'[o]
  <2>1. t[o] = l[o] => ~(stored[o] < t[o])  BY <1>4, <1>11
  <2> QED  BY <1>4, <1>8, <1>9, <1>10, <2>1
<1>12. ASSUME ~late' PROVE stored' = Counts' /\ (status = "closed" => stored' = stored)
  <2>1. t = Counts  BY <1>1, <1>5, <1>6, <1>7, <1>12 DEF Counted
  <2>2. CASE status = "closed"
    <3>1. stored = Counts  BY <1>5, <1>12, <2>2 DEF Result
    <3>2. \A o \in Options : stored'[o] = stored[o]  BY <1>10, <2>1, <3>1
    <3>3. stored' = stored  BY <1>0, <3>2 DEF Tallies, Typed
    <3> QED  BY <1>7, <3>1, <3>3
  <2>3. CASE status # "closed"
    <3>1. l = Zero /\ stored = Zero  BY <1>2, <1>7, <2>3 DEF Counted, Result
    <3>2. \A o \in Options : stored'[o] = t[o]  BY <1>10, <3>1
    <3>3. stored' = t  BY <3>2 DEF Tallies, Typed
    <3> QED  BY <1>7, <2>1, <2>3, <3>3
  <2> QED  BY <2>2, <2>3
<1> QED  BY <1>7, <1>8, <1>10, <1>11, <1>12

LEMMA ResultStep ==
  ASSUME IInv, Typed', Next
  PROVE  Result'
<1> USE DEF IInv
<1>1. RowsGrow /\ (~torn' => ~torn) /\ (~late' => ~late)  BY RowsStep, Notes
<1>2. CASE \E c \in Coroutines : CloseCommit(c)
  <2>1. status' = "closed"  BY <1>2 DEF CloseCommit
  <2> QED  BY <1>2, <2>1, CommitIs DEF Result
<1>3. CASE UNCHANGED <<status, stored, due, lowered>>
  <2>1. ASSUME ~torn', status = "closed", NEW o \in Options PROVE stored[o] <= Counts'[o]
    <3>1. stored[o] <= Counts[o] /\ Counts[o] <= Counts'[o]  BY <1>1, <2>1, CountsGrow DEF Result
    <3>2. stored[o] \in Nat /\ Counts[o] \in Nat /\ Counts'[o] \in Nat  BY Sizes, SizesThen DEF Typed, Tallies
    <3> QED  BY <3>1, <3>2
  <2>2. ASSUME ~late', status = "closed" PROVE Counts' = Counts
    BY <2>2, QuietRows, CountsStay
  <2> QED  BY <1>1, <1>3, <2>1, <2>2 DEF Result
<1>4. CASE status = "none" /\ status' = "open" /\ UNCHANGED <<stored, due, lowered>>
  BY <1>4 DEF Result
<1> QED  BY <1>2, <1>3, <1>4, Writers

-----------------------------------------------------------------------------
LEMMA InvInit ==
  ASSUME Init
  PROVE  IInv
<1>1. /\ \A b \in Ballots : ballot[b] = NoBallot
      /\ \A c \in Coroutines : reader[c] = NoReader
  BY DEF Init
<1>2. Typed
  <2>1. ballot \in [Ballots -> BallotType] /\ reader \in [Coroutines -> ReaderType]
    BY Records DEF Init
  <2> QED  BY <1>1, <2>1, Records, TallyTypes DEF Init, Typed
<1>3. Cast  BY <1>1, Records DEF Init, Cast, Due
<1>4. Exact  BY <1>1, Records DEF Init, Exact, Rebuilding, Counting
<1>5. Quiet  BY <1>1, Records DEF Init, Quiet, Voting
<1>6. Closers  BY <1>1, Records DEF Closers, Closes
<1>7. Result  BY DEF Init, Result
<1> QED  BY <1>2, <1>3, <1>4, <1>5, <1>6, <1>7 DEF IInv

LEMMA InvNext ==
  ASSUME IInv, [Next]_vars
  PROVE  IInv'
<1>1. CASE Next
  <2>1. Typed'  BY <1>1, TypesStep DEF IInv
  <2>2. Cast'  BY <1>1, RowsStep DEF IInv
  <2>3. Exact'  BY <1>1, <2>1, ExactStep DEF IInv
  <2>4. Quiet'  BY <1>1, QuietStep DEF IInv
  <2>5. Closers'  BY <1>1, <2>1, ClosersStep
  <2>6. Result'  BY <1>1, <2>1, ResultStep
  <2> QED  BY <2>1, <2>2, <2>3, <2>4, <2>5, <2>6 DEF IInv
<1>2. CASE UNCHANGED vars
  <2>1. Typed'  BY <1>2 DEF vars, IInv, Typed
  <2>2. Cast'  BY <1>2 DEF vars, IInv, Cast, Due, Voted
  <2>3. Exact'
    BY <1>2 DEF vars, IInv, Exact, Rebuilding, Counting, InFlight, Counts, CountOf, Voted
  <2>4. Quiet'  BY <1>2 DEF vars, IInv, Quiet, Closing, Voting
  <2>5. Closers'
    BY <1>2 DEF vars, IInv, Closers, Closes, Counted, Counts, CountOf, Voted
  <2>6. Result'  BY <1>2 DEF vars, IInv, Result, Counts, CountOf, Voted
  <2> QED  BY <2>1, <2>2, <2>3, <2>4, <2>5, <2>6 DEF IInv
<1> QED  BY <1>1, <1>2

(* _tally: for any voters and options, and wherever Redis or the backend   *)
(* stops, the hash of an open poll holds every vote that is not on its way, *)
(* each once, unless a vote was torn from its count.                       *)
THEOREM TallyAlwaysExact == Spec => []LiveTallyExact
<1>1. IInv => LiveTallyExact  BY DEF IInv, Exact, LiveTallyExact
<1> QED  BY <1>1, InvInit, InvNext, PTL DEF Spec

(* close: whatever number of closers, voters and readers, the result holds  *)
(* every vote that was answered before the close began, and none twice.    *)
THEOREM ResultAlwaysKeepsAnswered == Spec => []ResultKeepsAnswered
<1>1. IInv => ResultKeepsAnswered  BY DEF IInv, Result, ResultKeepsAnswered
<1> QED  BY <1>1, InvInit, InvNext, PTL DEF Spec

(* close, "Safe to call twice": with no vote under way, any number of       *)
(* closes, one after the other or at once, write the same result.           *)
THEOREM ResultNeverChanges == Spec => ResultFrozen
<1>1. ASSUME IInv, IInv', Next, status = "closed", ~torn', ~late' PROVE stored' = stored
  <2>1. Typed'  BY <1>1 DEF IInv
  <2>2. CASE \E c \in Coroutines : CloseCommit(c)  BY <1>1, <2>1, <2>2, CommitIs
  <2> QED  BY <1>1, <2>2, Writers
<1>2. IInv /\ IInv' /\ [Next]_vars => [status = "closed" /\ ~torn' /\ ~late' => stored' = stored]_vars
  BY <1>1
<1> QED  BY <1>2, InvInit, InvNext, PTL DEF Spec, ResultFrozen

(* The rows, the hash, the requests and the coroutines hold what the code   *)
(* puts there, whatever the order of the calls.                            *)
THEOREM TypeCorrect == Spec => []Typed
<1>1. IInv => Typed  BY DEF IInv
<1> QED  BY <1>1, InvInit, InvNext, PTL DEF Spec

=============================================================================
