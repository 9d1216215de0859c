-------------------------- MODULE WorkItemsProofs --------------------------
(***************************************************************************)
(* Proofs about the work items, for any number of clients, operations and  *)
(* deaths: a revision has one run and only the current one is executed,    *)
(* the item reports the run of its own text, what a facade offers is       *)
(* accepted, and an automatic settlement never chooses.                    *)
(***************************************************************************)
EXTENDS WorkItems, SequenceTheorems, WellFoundedInduction, TLAPS

-----------------------------------------------------------------------------
(* What a client carries through its call.                                   *)

AllOps  == Operations \cup {"get", "restart", "launch", "settle", "reconcile_only"}
SeenPcs == {"sync", "act", "create", "lease", "execute", "record"}

Short == [pc : {"idle", "read"}, op : AllOps, n : 0..MaxOps]
Long  == [pc : SeenPcs \cup {"read"}, op : AllOps, n : 0..MaxOps, st : ItemStatus,
          rev : Nat \ {0}, run : Nat, run_st : RunStatus \cup {"none"}, text : 0..MaxOps]

Seen(c) == call[c].pc \in SeenPcs

\* What a client's record says by where it is in its call.
Carries(my) ==
    /\ my.pc \in SeenPcs => /\ my \in Long /\ my.run <= Len(runs)
                            /\ my.run = 0 => my.run_st \in {"none", "failed"}
    /\ my.pc \in {"sync", "lease", "execute"} => my.run # 0
    /\ my.pc = "sync" => my.run_st # "none"
    /\ my.pc = "lease" => my.op \in {"launch", "settle", "reconcile", "reconcile_only"}
    /\ my.pc = "create" => my.op = "launch"
    /\ my.pc = "record" => my.run_st # "none"

\* The status an archived item goes back to.
CanReturn == item.shelved \in ItemStatus \ (Busy \cup {"archived"})

ItemRow == [there : BOOLEAN, status : ItemStatus, rev : Nat \ {0}, run : Nat,
            hidden : BOOLEAN, text : 0..MaxOps, shelved : ItemStatus \cup {"none"}]
TurnRow == [rev : Nat \ {0}, run : Nat]
RunRow  == [there : BOOLEAN, key : Nat \ {0}, text : 0..MaxOps,
            status : RunStatus, owner : Clients \cup {NoClient}]

ItemTyped  == item \in ItemRow /\ item.run <= Len(runs)
RunsTyped  == runs \in Seq(RunRow)
TurnsTyped == /\ turns \in Seq(TurnRow)
              /\ \A i \in 1..Len(turns) : turns[i].run <= Len(runs)
LinksTyped == /\ links \in Seq(Nat \ {0})
              /\ \A i \in 1..Len(links) : links[i] <= Len(runs)
CallsTyped == /\ call \in [Clients -> Short \cup Long]
              /\ \A c \in Clients : Carries(call[c])
Shelving   == /\ item.status = "archived" => CanReturn
              /\ \A c \in Clients : Seen(c) /\ call[c].st = "archived" => CanReturn
Counted    == /\ ops \in 0..MaxOps /\ crashes \in 0..MaxCrashes
              /\ anomaly \subseteq {"overtaken", "archived run", "crash before run"}
              /\ outdated \subseteq Clients

Typed == /\ ItemTyped /\ RunsTyped /\ TurnsTyped /\ LinksTyped
         /\ CallsTyped /\ Shelving /\ Counted

\* Before the item is created nobody works on it.
Untouched ==
    ops = 0 =>
        /\ runs = <<>> /\ turns = <<>> /\ ~item.there /\ item.status = "draft"
        /\ item.run = 0 /\ item.shelved = "none" /\ item.rev = 1
        /\ call = [c \in Clients |-> Idle] /\ anomaly = {}

\* Runs are deleted with their item and only with it.
Together == \A r \in DOMAIN runs : runs[r].there = item.there

\* A run is owned by the client that executes it, and by no other.
Owners ==
    \A r \in DOMAIN runs : runs[r].owner # NoClient =>
        /\ call[runs[r].owner].pc = "execute" /\ call[runs[r].owner].run = r
        /\ runs[r].there /\ runs[r].status \in Busy
Executes ==
    \A c \in Clients : call[c].pc = "execute" /\ item.there => runs[call[c].run].owner = c

-----------------------------------------------------------------------------
(* While nobody wrote on outdated knowledge.                                 *)

Mine(r) == runs[r].key = item.rev /\ runs[r].text = item.text

\* A client whose knowledge is not outdated knows the item's revision.
Knows(c) ==
    Seen(c) /\ c \notin outdated =>
        /\ item.there /\ call[c].rev = item.rev /\ call[c].text = item.text
        /\ call[c].run # 0 => Mine(call[c].run)

ItemKnown  == item.run # 0 => Mine(item.run)
KeysKnown  == /\ \A r \in DOMAIN runs : runs[r].key <= item.rev
              /\ \A r \in DOMAIN runs : runs[r].key = item.rev => runs[r].text = item.text
TurnsKnown == \A i \in DOMAIN turns :
                 turns[i].run # 0 => runs[turns[i].run].key = turns[i].rev

Knowing == ItemKnown /\ KeysKnown /\ TurnsKnown /\ \A c \in Clients : Knows(c)

\* What was decided for want of an alternative.
Forced == Terminal \cup {"awaiting_one"}
SettlesOne(c) ==
    c \notin outdated =>
        /\ call[c].pc \in {"sync", "act"} /\ call[c].run_st = "awaiting_one" =>
              call[c].run # 0 /\ runs[call[c].run].status \in Forced
        /\ call[c].pc \in {"read", "sync", "act", "lease"} /\ call[c].op = "reconcile_only" =>
              /\ \E r \in DOMAIN runs : runs[r].key = item.rev
              /\ \A r \in DOMAIN runs :
                    runs[r].there /\ runs[r].key = item.rev => runs[r].status \in Forced
SettlesForced == \A c \in Clients : SettlesOne(c)

-----------------------------------------------------------------------------
(* While nothing irregular happened at all.                                  *)

\* Whoever read the item while it is executed saw it busy.
SeesBusy ==
    \A c \in Clients : c \notin outdated /\ (\E r \in DOMAIN runs : runs[r].owner # NoClient) =>
        /\ call[c].pc = "act" => call[c].st \in Busy
        /\ call[c].pc = "sync" => call[c].run_st \in Busy

\* A busy item without a run is one that somebody is starting.
Launching(c) ==
    c \notin outdated /\ (call[c].pc = "create" \/ (call[c].pc = "record" /\ call[c].run = 0))
Started ==
    /\ item.there /\ item.status \in Busy /\ item.run = 0
    /\ \A r \in DOMAIN runs : runs[r].key # item.rev
    => \E c \in Clients : Launching(c)

IInv ==
    /\ Typed /\ Untouched /\ Together
    /\ Owners /\ Executes
    /\ OneRunPerRevision
    /\ "overtaken" \notin anomaly => Knowing /\ SettlesForced
    /\ ExecutingIsCurrent
    /\ anomaly = {} => SeesBusy /\ Started

-----------------------------------------------------------------------------
(* Shapes: what a record becomes when some of its fields are set.            *)

LEMMA AgainShape ==
    ASSUME NEW my \in Long, NEW o \in AllOps
    PROVE  LET r == [my EXCEPT !.pc = "read", !.op = o]
           IN r \in Long /\ r.pc = "read" /\ r.op = o
  BY DEF Long, SeenPcs

LEMMA PlaceShape ==
    ASSUME NEW my \in Long, NEW p \in SeenPcs
    PROVE  LET r == [my EXCEPT !.pc = p]
           IN r \in Long /\ r.pc = p /\ r.op = my.op /\ r.st = my.st /\ r.rev = my.rev
              /\ r.run = my.run /\ r.run_st = my.run_st /\ r.text = my.text
  BY DEF Long, SeenPcs

LEMMA OpShape ==
    ASSUME NEW my \in Long, NEW o \in AllOps
    PROVE  LET r == [my EXCEPT !.op = o]
           IN r \in Long /\ r.pc = my.pc /\ r.op = o /\ r.st = my.st /\ r.rev = my.rev
              /\ r.run = my.run /\ r.run_st = my.run_st /\ r.text = my.text
  BY DEF Long, SeenPcs

LEMMA IdleShape == Idle \in Short /\ Idle.pc = "idle"
<1>1. 0 \in 0..MaxOps
  BY BoundsAssumption
<1> QED BY <1>1 DEF Idle, Short, AllOps

LEMMA ReadShape ==
    ASSUME NEW n \in 0..MaxOps, NEW o \in AllOps
    PROVE  [pc |-> "read", op |-> o, n |-> n] \in Short
  BY DEF Short

LEMMA ShortAgainShape ==
    ASSUME NEW my \in Short, NEW o \in AllOps
    PROVE  LET r == [my EXCEPT !.pc = "read", !.op = o]
           IN r \in Short /\ r.pc = "read" /\ r.op = o
  BY DEF Short

LEMMA CreatedShape ==
    ASSUME NEW it \in ItemRow, NEW t \in 0..MaxOps
    PROVE  LET r == [it EXCEPT !.there = TRUE, !.text = t]
           IN r \in ItemRow /\ r.there = TRUE /\ r.rev = it.rev /\ r.text = t
              /\ r.status = it.status /\ r.run = it.run /\ r.shelved = it.shelved
  BY DEF ItemRow, ItemStatus

LEMMA DeletedShape ==
    ASSUME NEW it \in ItemRow
    PROVE  LET r == [it EXCEPT !.there = FALSE]
           IN r \in ItemRow /\ r.there = FALSE /\ r.rev = it.rev /\ r.text = it.text
              /\ r.status = it.status /\ r.run = it.run /\ r.shelved = it.shelved
  BY DEF ItemRow, ItemStatus

LEMMA RetitledShape ==
    ASSUME NEW it \in ItemRow, NEW v \in Nat \ {0}
    PROVE  LET r == [it EXCEPT !.rev = v, !.hidden = FALSE]
           IN r \in ItemRow /\ r.there = it.there /\ r.rev = v /\ r.text = it.text
              /\ r.status = it.status /\ r.run = it.run /\ r.shelved = it.shelved
  BY DEF ItemRow, ItemStatus

LEMMA ListedShape ==
    ASSUME NEW it \in ItemRow
    PROVE  LET r == [it EXCEPT !.hidden = FALSE]
           IN r \in ItemRow /\ r.there = it.there /\ r.rev = it.rev /\ r.text = it.text
              /\ r.status = it.status /\ r.run = it.run /\ r.shelved = it.shelved
  BY DEF ItemRow, ItemStatus

LEMMA StatusShape ==
    ASSUME NEW it \in ItemRow, NEW s \in ItemStatus
    PROVE  LET r == [it EXCEPT !.status = s, !.hidden = FALSE]
           IN r \in ItemRow /\ r.there = it.there /\ r.rev = it.rev /\ r.text = it.text
              /\ r.status = s /\ r.run = it.run /\ r.shelved = it.shelved
  BY DEF ItemRow, ItemStatus

LEMMA ArchivedShape ==
    ASSUME NEW it \in ItemRow, NEW z \in ItemStatus
    PROVE  LET r == [it EXCEPT !.status = "archived", !.hidden = TRUE, !.shelved = z]
           IN r \in ItemRow /\ r.there = it.there /\ r.rev = it.rev /\ r.text = it.text
              /\ r.status = "archived" /\ r.run = it.run /\ r.shelved = z
  BY DEF ItemRow, ItemStatus

LEMMA MarkedShape ==
    ASSUME NEW ru \in RunRow, NEW s \in RunStatus
    PROVE  LET r == [ru EXCEPT !.status = s]
           IN r \in RunRow /\ r.status = s /\ r.owner = ru.owner
              /\ r.key = ru.key /\ r.text = ru.text /\ r.there = ru.there
  BY DEF RunRow

LEMMA LapsedShape ==
    ASSUME NEW ru \in RunRow
    PROVE  LET r == [ru EXCEPT !.owner = NoClient]
           IN r \in RunRow /\ r.status = ru.status /\ r.owner = NoClient
              /\ r.key = ru.key /\ r.text = ru.text /\ r.there = ru.there
  BY DEF RunRow

LEMMA ForgottenShape ==
    ASSUME NEW ru \in RunRow
    PROVE  LET r == [ru EXCEPT !.there = FALSE, !.owner = NoClient]
           IN r \in RunRow /\ r.status = ru.status /\ r.owner = NoClient
              /\ r.key = ru.key /\ r.text = ru.text /\ r.there = FALSE
  BY DEF RunRow

-----------------------------------------------------------------------------
(* What the parts of an action do, read once for all of them.                *)

Others(c) == \A d \in Clients : d # c => call'[d] = call[d]

\* Statuses and owners apart, the runs are the same.
SameRuns ==
    /\ Len(runs') = Len(runs)
    /\ \A r \in 1..Len(runs) : /\ runs'[r].key = runs[r].key
                               /\ runs'[r].text = runs[r].text
                               /\ runs'[r].there = runs[r].there
SameOwners == \A r \in 1..Len(runs) : runs'[r].owner = runs[r].owner
SameItem   == item'.there = item.there /\ item'.rev = item.rev /\ item'.text = item.text

\* The call is over, or about to read again for something else.
Rests(c) ==
    \/ call'[c].pc = "idle"
    \/ call'[c].pc = "read" /\ call'[c].op # "reconcile_only"

\* The least of some ordinals is one of them.
LEMMA LeastExists ==
    ASSUME NEW I \in SUBSET Nat, I # {}
    PROVE  Min(I) \in I
<1> DEFINE R == OpToRel(<, Nat)
<1>1. IsWellFoundedOn(R, Nat)
  BY NatLessThanWellFounded
<1>2. \E i \in I : \A j \in I : ~ (<<j, i>> \in R)
  BY <1>1, WFMin
<1>3. \A i, j \in Nat : j < i => <<j, i>> \in R
  BY DEF OpToRel
<1> HIDE DEF R
<1>4. PICK i \in I : \A j \in I : ~ (j < i)
  BY <1>2, <1>3
<1>5. \A j \in I : i =< j
  BY <1>4
<1> QED BY <1>5 DEF Min

\* The run with a key is one of the runs, or there is none.
LEMMA KnownRunIsOne ==
    ASSUME RunsTyped, NEW v
    PROVE  \/ KnownRun(v) = 0 /\ \A r \in 1..Len(runs) : ~(runs[r].there /\ runs[r].key = v)
           \/ /\ KnownRun(v) \in 1..Len(runs)
              /\ runs[KnownRun(v)].there /\ runs[KnownRun(v)].key = v
<1> DEFINE I == {i \in 1..Len(runs) : runs[i].there /\ runs[i].key = v}
<1>1. KnownRun(v) = IF I # {} THEN Min(I) ELSE 0
  BY DEF KnownRun, SelectInSeq
<1>2. I \in SUBSET Nat
  OBVIOUS
<1>3. I # {} => Min(I) \in I
  BY <1>2, LeastExists
<1> HIDE DEF I
<1>4. CASE I = {}
  <2>1. \A r \in 1..Len(runs) : ~(runs[r].there /\ runs[r].key = v)
    BY <1>4 DEF I
  <2> QED BY <1>1, <1>4, <2>1
<1>5. CASE I # {}
  <2>1. KnownRun(v) \in I
    BY <1>1, <1>3, <1>5
  <2> QED BY <2>1 DEF I
<1> QED BY <1>4, <1>5

LEMMA RunRows ==
    ASSUME RunsTyped
    PROVE  /\ Len(runs) \in Nat /\ DOMAIN runs = 1..Len(runs)
           /\ \A r \in 1..Len(runs) : runs[r] \in RunRow
  BY DEF RunsTyped

LEMMA StatusOfRuns ==
    ASSUME RunsTyped, NEW r \in 0..Len(runs)
    PROVE  StatusOf(r) \in RunStatus \cup {"none"}
<1>1. CASE r = 0
  BY <1>1 DEF StatusOf
<1>2. CASE r # 0
  <2>1. r \in 1..Len(runs)
    BY <1>2, RunRows
  <2>2. runs[r].status \in RunStatus
    BY <2>1, RunRows DEF RunRow
  <2> QED BY <2>2 DEF StatusOf
<1> QED BY <1>1, <1>2

\* The run shown of the item: the one it names, or that of its revision's key.
LEMMA RunOfItem ==
    ASSUME RunsTyped, ItemTyped
    PROVE  /\ item.run # 0 => RunOf(item) = item.run
           /\ item.run = 0 /\ item.status = "archived" => RunOf(item) = 0
           /\ item.run = 0 /\ item.status # "archived" =>
                 RunOf(item) = KnownRun(item.rev)
           /\ RunOf(item) \in 0..Len(runs)
           /\ StatusOf(RunOf(item)) \in RunStatus \cup {"none"}
<1>1. /\ item.run # 0 => RunOf(item) = item.run
      /\ item.run = 0 /\ item.status = "archived" => RunOf(item) = 0
  BY DEF RunOf, SelectInSeq
<1>2. item.run = 0 /\ item.status # "archived" => RunOf(item) = KnownRun(item.rev)
  BY DEF RunOf, KnownRun, SelectInSeq
<1>3. RunOf(item) \in 0..Len(runs)
  BY <1>1, <1>2, KnownRunIsOne DEF ItemTyped, ItemRow, RunsTyped
<1>4. StatusOf(RunOf(item)) \in RunStatus \cup {"none"}
  BY <1>3, StatusOfRuns
<1> QED BY <1>1, <1>2, <1>3, <1>4

LEMMA ItemStatusShown ==
    ASSUME NEW s
    PROVE  ItemStatusOf(s) \in ItemStatus /\ ItemStatusOf(s) # "archived"
  BY DEF ItemStatusOf, ItemStatus, Parked

LEMMA Moves ==
    ASSUME CallsTyped, NEW c \in Clients, NEW rec \in Short \cup Long,
           call' = [call EXCEPT ![c] = rec]
    PROVE  call' \in [Clients -> Short \cup Long] /\ call'[c] = rec /\ Others(c)
  BY DEF CallsTyped, Others

LEMMA Ends ==
    ASSUME CallsTyped, NEW c \in Clients, End(c)
    PROVE  /\ call' \in [Clients -> Short \cup Long] /\ Others(c) /\ Rests(c)
           /\ call'[c].pc = "idle"
<1> QED BY IdleShape, Moves DEF End, Goto, Rests

LEMMA SeenIsLong ==
    ASSUME CallsTyped, NEW c \in Clients, Seen(c)
    PROVE  /\ call[c] \in Long /\ call[c].run \in 0..Len(runs)
           /\ call[c].run = 0 => call[c].run_st \in {"none", "failed"}
  BY DEF CallsTyped, Carries, Seen, Long

LEMMA GoesAgain ==
    ASSUME CallsTyped, NEW c \in Clients, NEW o \in AllOps, Again(c, o)
    PROVE  /\ call' \in [Clients -> Short \cup Long] /\ Others(c)
           /\ call'[c].pc = "read" /\ call'[c].op = o
<1> DEFINE rec == [call[c] EXCEPT !.pc = "read", !.op = o]
<1>1. rec \in Short \cup Long /\ rec.pc = "read" /\ rec.op = o
  <2>1. CASE call[c] \in Short
    BY <2>1, ShortAgainShape
  <2>2. CASE call[c] \in Long
    BY <2>2, AgainShape
  <2> QED BY <2>1, <2>2 DEF CallsTyped
<1>2. call' = [call EXCEPT ![c] = rec]
  BY DEF Again, Goto
<1> HIDE DEF rec
<1> QED BY <1>1, <1>2, Moves

\* A move that leaves what the others carry typed.
LEMMA Carried ==
    ASSUME CallsTyped, NEW c \in Clients, Others(c), call' \in [Clients -> Short \cup Long],
           Len(runs) \in Nat, Len(runs') \in Nat, Len(runs) <= Len(runs'), Carries(call[c])'
    PROVE  CallsTyped'
<1>1. ASSUME NEW d \in Clients PROVE Carries(call[d])'
  <2>1. CASE d = c
    BY <2>1
  <2>2. CASE d # c
    <3>1. call'[d] = call[d] /\ Carries(call[d])
      BY <2>2 DEF Others, CallsTyped
    <3> QED BY <3>1 DEF Carries, Long
  <2> QED BY <2>1, <2>2
<1> QED BY <1>1 DEF CallsTyped

LEMMA RestCarries ==
    ASSUME NEW c \in Clients, Rests(c)
    PROVE  Carries(call[c])' /\ ~Seen(c)'
  BY DEF Rests, Carries, Seen, SeenPcs

\* The archive remembers a status to go back to.
LEMMA Shelved ==
    ASSUME Shelving, NEW c \in Clients, Others(c),
           CanReturn => CanReturn',
           item'.status = "archived" => CanReturn',
           Seen(c)' /\ call'[c].st = "archived" => CanReturn'
    PROVE  Shelving'
<1>1. ASSUME NEW d \in Clients, Seen(d)', call'[d].st = "archived" PROVE CanReturn'
  <2>1. CASE d = c
    BY <1>1, <2>1
  <2>2. CASE d # c
    BY <1>1, <2>2 DEF Others, Seen, Shelving
  <2> QED BY <2>1, <2>2
<1> QED BY <1>1 DEF Shelving

LEMMA FlagTyped ==
    ASSUME Counted, NEW c \in Clients, UNCHANGED <<ops, crashes>>,
           Redirect(c) \/ Record(c) \/ Quiet
    PROVE  Counted'
  BY DEF Counted, Redirect, Record, Quiet, Flag

LEMMA TakesRun ==
    ASSUME RunsTyped, NEW c \in Clients, NEW r \in 1..Len(runs), NEW s \in RunStatus, Take(c, r, s)
    PROVE  /\ RunsTyped' /\ SameRuns
           /\ \A q \in 1..Len(runs) : q # r => runs'[q] = runs[q]
           /\ runs'[r].status = s /\ runs'[r].owner = IF s = "running" THEN c ELSE NoClient
<1> DEFINE o == IF s = "running" THEN c ELSE NoClient
           rec == [runs[r] EXCEPT !.status = s, !.owner = o]
<1>1. runs[r] \in RunRow /\ o \in Clients \cup {NoClient}
  BY RunRows
<1>2. /\ rec \in RunRow /\ rec.status = s /\ rec.owner = o
      /\ rec.key = runs[r].key /\ rec.text = runs[r].text /\ rec.there = runs[r].there
  BY <1>1 DEF RunRow
<1>3. runs' = [runs EXCEPT ![r] = rec]
  BY <1>1 DEF Take, RunsTyped, RunRow
<1> HIDE DEF rec
<1>4. /\ runs' \in Seq(RunRow) /\ Len(runs') = Len(runs)
      /\ \A q \in 1..Len(runs) : runs'[q] = IF q = r THEN rec ELSE runs[q]
  BY <1>2, <1>3, ExceptSeq DEF RunsTyped
<1> QED BY <1>2, <1>4 DEF RunsTyped, SameRuns

\* _link_run: the turns of the item's revision get the run, once.
LEMMA LinksRun ==
    ASSUME RunsTyped, TurnsTyped, LinksTyped, NEW r \in 0..Len(runs), LinkRun(r), UNCHANGED runs
    PROVE  /\ TurnsTyped' /\ LinksTyped' /\ Len(turns') = Len(turns)
           /\ \A i \in 1..Len(turns) :
                 /\ turns'[i].rev = turns[i].rev
                 /\ \/ turns'[i].run = turns[i].run
                    \/ turns[i].rev = item.rev /\ turns'[i].run = r /\ r # 0
<1>1. CASE UNCHANGED <<turns, links>>
  BY <1>1 DEF TurnsTyped, LinksTyped
<1>2. CASE r # 0 /\ links' = Append(links, r)
           /\ turns' = [i \in DOMAIN turns |->
                          IF turns[i].rev = item.rev /\ turns[i].run = 0
                          THEN [turns[i] EXCEPT !.run = r] ELSE turns[i]]
  <2> DEFINE new(i) == [turns[i] EXCEPT !.run = r]
  <2>1. \A t \in TurnRow : /\ [t EXCEPT !.run = r] \in TurnRow
                           /\ [t EXCEPT !.run = r].rev = t.rev /\ [t EXCEPT !.run = r].run = r
    BY DEF TurnRow
  <2>2. DOMAIN turns = 1..Len(turns) /\ Len(turns) \in Nat
        /\ \A i \in 1..Len(turns) : turns[i] \in TurnRow
    BY DEF TurnsTyped
  <2>3. \A i \in 1..Len(turns) : new(i) \in TurnRow /\ new(i).rev = turns[i].rev /\ new(i).run = r
    BY <2>1, <2>2
  <2> HIDE DEF new
  <2>4. turns' = [i \in 1..Len(turns) |-> IF turns[i].rev = item.rev /\ turns[i].run = 0
                                           THEN new(i) ELSE turns[i]]
    BY <1>2, <2>2 DEF new
  <2>5. turns' \in [1..Len(turns) -> TurnRow]
    BY <2>2, <2>3, <2>4
  <2>6. turns' \in Seq(TurnRow) /\ Len(turns') = Len(turns)
    BY <2>2, <2>5
  <2>7. \A i \in 1..Len(turns) :
           /\ turns'[i].rev = turns[i].rev
           /\ \/ turns'[i].run = turns[i].run
              \/ turns[i].rev = item.rev /\ turns'[i].run = r /\ r # 0
    BY <1>2, <2>3, <2>4
  <2>8. TurnsTyped'
    BY <2>6, <2>7 DEF TurnsTyped
  <2>9. /\ links' \in Seq(Nat \ {0}) /\ Len(links') = Len(links) + 1
        /\ \A i \in 1..Len(links) : links'[i] = links[i]
        /\ links'[Len(links) + 1] = r
    BY <1>2, AppendProperties DEF LinksTyped
  <2>10. LinksTyped'
    <3>1. Len(links) \in Nat
      BY DEF LinksTyped
    <3>2. ASSUME NEW i \in 1..Len(links') PROVE links'[i] <= Len(runs)
      <4>1. CASE i = Len(links) + 1
        <5>1. links'[i] = r
          BY <2>9, <4>1
        <5> QED BY <5>1, RunRows
      <4>2. CASE i \in 1..Len(links)
        <5>1. links'[i] = links[i] /\ links[i] <= Len(runs)
          BY <2>9, <4>2 DEF LinksTyped
        <5> QED BY <5>1
      <4> QED BY <2>9, <3>1, <4>1, <4>2
    <3>3. runs' = runs
      OBVIOUS
    <3> QED BY <2>9, <3>2, <3>3 DEF LinksTyped
  <2> QED BY <2>6, <2>7, <2>8, <2>10
<1> QED BY <1>1, <1>2 DEF LinkRun

-----------------------------------------------------------------------------
(* The effect of each action, and that it keeps the types.                   *)

LEMMA StaysTyped ==
    ASSUME Typed, NEW c \in Clients, Others(c), call' \in [Clients -> Short \cup Long],
           Carries(call[c])', ItemTyped', RunsTyped', Len(runs) <= Len(runs'),
           TurnsTyped', LinksTyped', Counted',
           CanReturn => CanReturn', item'.status = "archived" => CanReturn',
           Seen(c)' /\ call'[c].st = "archived" => CanReturn'
    PROVE  Typed'
<1>1. Len(runs) \in Nat /\ Len(runs') \in Nat
  BY DEF Typed, RunsTyped
<1>2. CallsTyped'
  BY <1>1, Carried DEF Typed
<1>3. Shelving'
  BY Shelved DEF Typed
<1> QED BY <1>2, <1>3 DEF Typed

\* A step of a call that touches no row.
LEMMA StaysTypedAlone ==
    ASSUME Typed, NEW c \in Clients, Others(c), call' \in [Clients -> Short \cup Long],
           Carries(call[c])', UNCHANGED <<item, runs, turns, links>>, Counted',
           Seen(c)' /\ call'[c].st = "archived" =>
               item.status = "archived" \/ (Seen(c) /\ call[c].st = "archived")
    PROVE  Typed'
<1>1. ItemTyped' /\ RunsTyped' /\ TurnsTyped' /\ LinksTyped' /\ Len(runs) <= Len(runs')
  BY DEF Typed, ItemTyped, RunsTyped, TurnsTyped, LinksTyped
<1>2. /\ CanReturn' <=> CanReturn
      /\ item'.status = "archived" => CanReturn'
      /\ Seen(c)' /\ call'[c].st = "archived" => CanReturn'
  BY DEF Typed, Shelving, CanReturn
<1> QED BY <1>1, <1>2, StaysTyped

LEMMA RestStaysTyped ==
    ASSUME Typed, NEW c \in Clients, Others(c), call' \in [Clients -> Short \cup Long],
           Rests(c), UNCHANGED <<item, runs, turns, links>>, Counted'
    PROVE  Typed'
  BY RestCarries, StaysTypedAlone

LEMMA CreateEffect ==
    ASSUME Typed, Untouched, NEW c \in Clients, Create(c)
    PROVE  /\ Typed' /\ UNCHANGED <<runs, links, call, outdated, anomaly>>
           /\ runs = <<>> /\ Len(turns') = 1 /\ turns'[1].run = 0
           /\ item'.run = 0 /\ item'.status = "draft" /\ ops' # 0
<1>0. ops = 0 /\ ops' = 1
  BY DEF Create
<1>1. ops = 0 /\ ops' = 1 /\ 1 \in 0..MaxOps
  BY <1>0, BoundsAssumption
<1>2. UNCHANGED <<runs, links, call, outdated, anomaly, crashes>> /\ runs = <<>>
  BY <1>1 DEF Create, Untouched
<1>3. Len(turns') = 1 /\ turns'[1] = [rev |-> 1, run |-> 0] /\ turns' = <<[rev |-> 1, run |-> 0]>>
  BY DEF Create
<1>4. [rev |-> 1, run |-> 0] \in TurnRow
  BY DEF TurnRow
<1>5. TurnsTyped'
  <2>1. turns' \in Seq(TurnRow)
    BY <1>3, <1>4
  <2>2. \A i \in 1..Len(turns') : turns'[i].run <= Len(runs')
    BY <1>2, <1>3
  <2> QED BY <2>1, <2>2 DEF TurnsTyped
<1>6. item' \in ItemRow /\ item'.run = item.run /\ item'.status = item.status /\ item'.shelved = item.shelved
  <2>1. item \in ItemRow
    BY DEF Typed, ItemTyped
  <2> QED BY <1>1, <2>1, CreatedShape DEF Create
<1>7. ItemTyped'
  BY <1>2, <1>6 DEF Typed, ItemTyped
<1>8. RunsTyped' /\ LinksTyped' /\ CallsTyped'
  BY <1>2 DEF Typed, RunsTyped, LinksTyped, CallsTyped, Carries
<1>9. Shelving'
  BY <1>2, <1>6 DEF Typed, Shelving, Seen, CanReturn
<1>10. Counted'
  BY <1>1, <1>2 DEF Typed, Counted
<1> QED BY <1>1, <1>2, <1>3, <1>5, <1>6, <1>7, <1>8, <1>9, <1>10 DEF Typed, Untouched

LEMMA BeginEffect ==
    ASSUME Typed, NEW c \in Clients, NEW op \in Operations, Begin(c, op)
    PROVE  /\ Typed' /\ Others(c) /\ Rests(c) /\ ops' # 0
           /\ UNCHANGED <<item, turns, links, runs, outdated, anomaly>>
           /\ ops # 0
<1> DEFINE rec == [pc |-> "read", op |-> op, n |-> ops + 1]
<1>1. ops \in 1..MaxOps - 1 /\ ops' = ops + 1 /\ call' = [call EXCEPT ![c] = rec]
      /\ UNCHANGED <<item, turns, links, runs, crashes, outdated, anomaly>>
  BY DEF Begin, Goto
<1>2. op \in AllOps /\ op # "reconcile_only"
  BY DEF AllOps, Operations
<1>3. ops + 1 \in 0..MaxOps /\ ops + 1 # 0
  BY <1>1, BoundsAssumption
<1>4. rec \in Short /\ rec.pc = "read" /\ rec.op = op
  BY <1>2, <1>3, ReadShape
<1> HIDE DEF rec
<1>5. call' \in [Clients -> Short \cup Long] /\ call'[c] = rec /\ Others(c)
  BY <1>1, <1>4, Moves DEF Typed
<1>6. Rests(c)
  BY <1>2, <1>4, <1>5 DEF Rests
<1>7. Counted'
  BY <1>1, <1>3 DEF Typed, Counted
<1>8. Typed'
  BY <1>1, <1>5, <1>6, <1>7, RestStaysTyped
<1>9. ops # 0
  BY <1>1, BoundsAssumption
<1> QED BY <1>1, <1>3, <1>5, <1>6, <1>8, <1>9

LEMMA SettleAllEffect ==
    ASSUME Typed, NEW c \in Clients, SettleAll(c)
    PROVE  /\ Typed' /\ Others(c) /\ Rests(c) /\ SameRuns /\ SameOwners
           /\ \A r \in 1..Len(runs) :
                 runs[r].owner # NoClient \/ runs[r].status \notin Busy =>
                     runs'[r].status = runs[r].status
           /\ call[c].pc = "read"
           /\ UNCHANGED <<item, turns, links, outdated, anomaly, ops>>
<1>1. call[c].pc = "read" /\ UNCHANGED <<item, turns, links, ops, crashes, outdated, anomaly>>
  BY DEF SettleAll
<1>2. DOMAIN runs = 1..Len(runs) /\ Len(runs) \in Nat
      /\ \A r \in 1..Len(runs) : runs[r] \in RunRow
  BY RunRows DEF Typed
<1>3. PICK f \in [DOMAIN runs -> RunStatus] :
          /\ \A r \in DOMAIN runs : f[r] \in Recovered(runs[r])
          /\ runs' = [r \in DOMAIN runs |-> [runs[r] EXCEPT !.status = f[r]]]
  BY DEF SettleAll
<1> DEFINE new(r) == [runs[r] EXCEPT !.status = f[r]]
<1>4. ASSUME NEW r \in 1..Len(runs)
      PROVE  /\ new(r) \in RunRow /\ new(r).status = f[r] /\ new(r).owner = runs[r].owner
             /\ new(r).key = runs[r].key /\ new(r).text = runs[r].text
             /\ new(r).there = runs[r].there
  <2>1. runs[r] \in RunRow /\ f[r] \in RunStatus
    BY <1>2, <1>3
  <2> QED BY <2>1, MarkedShape
<1> HIDE DEF new
<1>5. runs' = [r \in 1..Len(runs) |-> new(r)]
  BY <1>2, <1>3 DEF new
<1>6. runs' \in [1..Len(runs) -> RunRow]
  BY <1>4, <1>5
<1>7. runs' \in Seq(RunRow) /\ Len(runs') = Len(runs)
  BY <1>2, <1>6
<1>8. \A r \in 1..Len(runs) : runs'[r] = new(r)
  BY <1>5
<1>9. SameRuns /\ SameOwners
  BY <1>4, <1>7, <1>8 DEF SameRuns, SameOwners
<1>10. ASSUME NEW r \in 1..Len(runs), runs[r].owner # NoClient \/ runs[r].status \notin Busy
       PROVE  runs'[r].status = runs[r].status
  <2>1. f[r] \in Recovered(runs[r])
    BY <1>2, <1>3
  <2>2. f[r] = runs[r].status
    BY <1>10, <2>1 DEF Recovered, Busy
  <2> QED BY <1>4, <1>8, <2>2
<1>11. call' \in [Clients -> Short \cup Long] /\ Others(c) /\ Rests(c)
  <2>1. CASE Again(c, "settle")
    <3>1. "settle" \in AllOps /\ "settle" # "reconcile_only"
      BY DEF AllOps
    <3> QED BY <2>1, <3>1, GoesAgain DEF Typed, Rests
  <2>2. CASE End(c)
    BY <2>2, Ends DEF Typed
  <2> QED BY <2>1, <2>2 DEF SettleAll
<1>12. Typed'
  <2>1. ItemTyped' /\ TurnsTyped' /\ LinksTyped' /\ Counted' /\ RunsTyped' /\ Len(runs) <= Len(runs')
    <3>1. ItemTyped' /\ Counted'
      BY <1>1, <1>7 DEF Typed, ItemTyped, Counted
    <3>2. TurnsTyped' /\ LinksTyped'
      BY <1>1, <1>7 DEF Typed, TurnsTyped, LinksTyped
    <3> QED BY <1>2, <1>7, <3>1, <3>2 DEF RunsTyped
  <2>2. (CanReturn' <=> CanReturn) /\ (item'.status = "archived" => CanReturn')
    BY <1>1 DEF CanReturn, Typed, Shelving
  <2> QED BY <1>11, <2>1, <2>2, RestCarries, StaysTyped
<1> QED BY <1>1, <1>9, <1>10, <1>11, <1>12

\* What a read remembers of the item.
Remembers(c) ==
    /\ call'[c] \in Long /\ call'[c].pc \in {"sync", "act"} /\ call'[c].op = call[c].op
    /\ call'[c].st = item.status /\ call'[c].rev = item.rev /\ call'[c].text = item.text
    /\ call'[c].run = RunOf(item) /\ call'[c].run_st = StatusOf(RunOf(item))
    /\ call'[c].pc = "sync" => call'[c].run_st # "none" /\ item.status # "archived"
    /\ call'[c].pc = "act" => \/ StatusOf(RunOf(item)) = "none" \/ item.status = "archived"
                              \/ item.run = RunOf(item)
                                 /\ item.status = ItemStatusOf(StatusOf(RunOf(item)))

LEMMA ReadEffect ==
    ASSUME Typed, NEW c \in Clients, Read(c)
    PROVE  /\ Typed' /\ Others(c) /\ call[c].pc = "read"
           /\ (call'[c].pc = "idle") \/ (item.there /\ Remembers(c))
           /\ outdated' = IF call[c].op = "reconcile_only" THEN outdated ELSE outdated \ {c}
           /\ UNCHANGED <<item, turns, links, runs, anomaly, ops>>
<1> DEFINE r == RunOf(item)
           s == StatusOf(r)
           stale == /\ s # "none" /\ item.status # "archived"
                    /\ item.run # r \/ item.status # ItemStatusOf(s)
           rec == [pc |-> IF stale THEN "sync" ELSE "act", op |-> call[c].op, n |-> call[c].n,
                   st |-> item.status, rev |-> item.rev, run |-> r, run_st |-> s,
                   text |-> item.text]
<1>1. /\ call[c].pc = "read" /\ UNCHANGED <<item, turns, links, runs, anomaly, ops, crashes>>
      /\ outdated' = IF call[c].op = "reconcile_only" THEN outdated ELSE outdated \ {c}
  BY DEF Read
<1>2. r \in 0..Len(runs) /\ s \in RunStatus \cup {"none"} /\ Len(runs) \in Nat
  BY RunOfItem, RunRows DEF Typed
<1>3. /\ item.status \in ItemStatus /\ item.rev \in Nat \ {0} /\ item.text \in 0..MaxOps
  BY DEF Typed, ItemTyped, ItemRow
<1>4. call[c].op \in AllOps /\ call[c].n \in 0..MaxOps
  BY DEF Typed, CallsTyped, Short, Long
<1>5. End(c) \/ (item.there /\ Goto(c, rec))
  BY DEF Read
<1>6. rec \in Long /\ rec.pc \in {"sync", "act"}
  BY <1>2, <1>3, <1>4 DEF Long, SeenPcs
<1>7. Counted'
  BY <1>1 DEF Typed, Counted
<1>8. CASE End(c)
  <2>1. call' \in [Clients -> Short \cup Long] /\ Others(c) /\ Rests(c) /\ call'[c].pc = "idle"
    BY <1>8, Ends DEF Typed
  <2>2. Typed'
    BY <1>1, <1>7, <2>1, RestStaysTyped
  <2> QED BY <1>1, <2>1, <2>2
<1>9. CASE item.there /\ Goto(c, rec)
  <2>1. /\ rec.op = call[c].op /\ rec.st = item.status /\ rec.rev = item.rev /\ rec.run = r
        /\ rec.run_st = s /\ rec.text = item.text
        /\ rec.pc = IF stale THEN "sync" ELSE "act"
    OBVIOUS
  <2>2. s # "none" => r # 0
    BY DEF StatusOf
  <2> HIDE DEF rec
  <2>3. call' \in [Clients -> Short \cup Long] /\ call'[c] = rec /\ Others(c)
    BY <1>6, <1>9, Moves DEF Typed, Goto
  <2>4. Remembers(c)
    BY <1>6, <2>1, <2>3 DEF Remembers
  <2>5. Carries(call[c])'
    BY <1>1, <1>2, <1>6, <2>1, <2>2, <2>3 DEF Carries, SeenPcs
  <2>6. Typed'
    BY <1>1, <1>7, <2>1, <2>3, <2>5, StaysTypedAlone
  <2> QED BY <1>1, <1>9, <2>3, <2>4, <2>6
<1> QED BY <1>5, <1>8, <1>9

\* The call goes on with what it read.
Continues(c) ==
    /\ call'[c] \in Long
    /\ call'[c].st = call[c].st /\ call'[c].rev = call[c].rev /\ call'[c].text = call[c].text

LEMMA PlacedCall ==
    ASSUME CallsTyped, NEW c \in Clients, Seen(c), NEW p \in SeenPcs,
           Goto(c, [call[c] EXCEPT !.pc = p])
    PROVE  /\ call' \in [Clients -> Short \cup Long] /\ Others(c) /\ Continues(c)
           /\ call'[c].pc = p /\ call'[c].op = call[c].op /\ call'[c].run = call[c].run
           /\ call'[c].run_st = call[c].run_st
<1> DEFINE rec == [call[c] EXCEPT !.pc = p]
<1>1. call[c] \in Long
  BY SeenIsLong
<1>2. rec \in Long /\ rec.pc = p /\ rec.op = call[c].op /\ rec.st = call[c].st
      /\ rec.rev = call[c].rev /\ rec.run = call[c].run /\ rec.run_st = call[c].run_st
      /\ rec.text = call[c].text
  BY <1>1, PlaceShape
<1>3. call' = [call EXCEPT ![c] = rec]
  BY DEF Goto
<1> HIDE DEF rec
<1> QED BY <1>2, <1>3, Moves DEF Continues

LEMMA ResultCall ==
    ASSUME CallsTyped, NEW c \in Clients, Seen(c), NEW s \in RunStatus, Result(c, s)
    PROVE  /\ call' \in [Clients -> Short \cup Long] /\ Others(c) /\ Continues(c)
           /\ call'[c].pc = "record" /\ call'[c].op = call[c].op /\ call'[c].run = call[c].run
           /\ call'[c].run_st = s
<1> DEFINE rec == [call[c] EXCEPT !.pc = "record", !.run_st = s]
<1>1. call[c] \in Long /\ "record" \in SeenPcs
  BY SeenIsLong DEF SeenPcs
<1>2. rec \in Long /\ rec.pc = "record" /\ rec.op = call[c].op /\ rec.st = call[c].st
      /\ rec.rev = call[c].rev /\ rec.run = call[c].run /\ rec.run_st = s
      /\ rec.text = call[c].text
  BY <1>1 DEF Long
<1>3. call' = [call EXCEPT ![c] = rec]
  BY DEF Result, Goto
<1> HIDE DEF rec
<1> QED BY <1>2, <1>3, Moves DEF Continues

\* A new place of a call that keeps its run and touches no row.
LEMMA PlaceStaysTyped ==
    ASSUME Typed, NEW c \in Clients, Seen(c), Others(c), call' \in [Clients -> Short \cup Long],
           Continues(c), call'[c].run = call[c].run,
           call'[c].run_st = call[c].run_st \/ call[c].run # 0,
           call'[c].pc \in {"sync", "lease", "execute"} => call[c].run # 0,
           call'[c].pc \in {"sync", "record"} => call'[c].run_st # "none",
           call'[c].pc = "lease" => call'[c].op \in {"launch", "settle", "reconcile", "reconcile_only"},
           call'[c].pc = "create" => call'[c].op = "launch",
           UNCHANGED <<item, runs, turns, links>>, Counted'
    PROVE  Typed'
<1>1. /\ call[c].run \in 0..Len(runs) /\ Len(runs) \in Nat
      /\ call[c].run = 0 => call[c].run_st \in {"none", "failed"}
  BY SeenIsLong, RunRows DEF Typed
<1>2. Carries(call[c])'
  BY <1>1 DEF Carries, Continues
<1> QED BY <1>2, StaysTypedAlone DEF Continues

\* What _link_run changes of the turns.
Linking(r) ==
    /\ Len(turns') = Len(turns)
    /\ \A i \in 1..Len(turns) :
          /\ turns'[i].rev = turns[i].rev
          /\ \/ turns'[i].run = turns[i].run
             \/ turns[i].rev = item.rev /\ turns'[i].run = r /\ r # 0

Reports(c) ==
    /\ item.there /\ SameItem /\ Record(c) /\ Linking(call[c].run)
    /\ item'.status = ItemStatusOf(call[c].run_st) /\ item'.status # "archived"

LEMMA SyncEffect ==
    ASSUME Typed, NEW c \in Clients, Sync(c)
    PROVE  /\ Typed' /\ Others(c) /\ call[c].pc = "sync" /\ call[c].run # 0
           /\ UNCHANGED <<runs, ops>>
           /\ \/ Rests(c) /\ UNCHANGED <<item, turns, outdated, anomaly>>
              \/ /\ Reports(c) /\ item'.run = call[c].run
                 /\ \/ Rests(c)
                    \/ /\ call'[c].pc = "act" /\ call'[c].op = call[c].op
                       /\ call'[c].st = item'.status /\ call'[c].rev = item.rev
                       /\ call'[c].text = item.text /\ call'[c].run = call[c].run
                       /\ call'[c].run_st = call[c].run_st
<1>1. call[c].pc = "sync" /\ Seen(c) /\ UNCHANGED <<runs, ops, crashes>>
  BY DEF Sync, Seen, SeenPcs
<1>2. /\ call[c] \in Long /\ call[c].run \in 0..Len(runs) /\ call[c].run # 0
      /\ call[c].run_st # "none" /\ call[c].run_st \in RunStatus
  BY <1>1, SeenIsLong DEF Typed, CallsTyped, Carries, Long
<1>3. CASE End(c) /\ UNCHANGED <<item, turns, links>> /\ Quiet
  <2>1. call' \in [Clients -> Short \cup Long] /\ Others(c) /\ Rests(c)
    BY <1>3, Ends DEF Typed
  <2>2. Counted' /\ UNCHANGED <<outdated, anomaly>>
    BY <1>1, <1>3, FlagTyped DEF Typed, Quiet
  <2>3. Typed'
    BY <1>1, <1>3, <2>1, <2>2, RestStaysTyped
  <2> QED BY <1>1, <1>2, <1>3, <2>1, <2>2, <2>3
<1>4. CASE /\ item.there /\ LinkRun(call[c].run)
           /\ item' = [item EXCEPT !.run = call[c].run, !.status = ItemStatusOf(call[c].run_st)]
           /\ Goto(c, IF call[c].op = "get" THEN Idle
                      ELSE [call[c] EXCEPT !.pc = "act", !.st = ItemStatusOf(call[c].run_st),
                                           !.rev = item.rev, !.text = item.text])
           /\ Record(c)
  <2> DEFINE st == ItemStatusOf(call[c].run_st)
             rec == [call[c] EXCEPT !.pc = "act", !.st = st, !.rev = item.rev, !.text = item.text]
  <2>0. st \in ItemStatus /\ st # "archived" /\ item \in ItemRow
        /\ item.rev \in Nat \ {0} /\ item.text \in 0..MaxOps
    BY ItemStatusShown DEF Typed, ItemTyped, ItemRow
  <2> HIDE DEF st
  <2>1. item' \in ItemRow /\ item'.there = item.there /\ item'.rev = item.rev
        /\ item'.text = item.text /\ item'.status = st /\ item'.run = call[c].run
        /\ item'.shelved = item.shelved
    <3>1. call[c].run \in Nat
      BY <1>2 DEF Long
    <3>2. item' = [item EXCEPT !.run = call[c].run, !.status = st]
      BY <1>4 DEF st
    <3> QED BY <2>0, <3>1, <3>2 DEF ItemRow
  <2>2. rec \in Long /\ rec.pc = "act" /\ rec.op = call[c].op /\ rec.st = st
        /\ rec.rev = item.rev /\ rec.run = call[c].run /\ rec.run_st = call[c].run_st
        /\ rec.text = item.text
    BY <1>2, <2>0 DEF Long, SeenPcs
  <2>3. /\ call[c].op = "get" => call' = [call EXCEPT ![c] = Idle]
        /\ call[c].op # "get" => call' = [call EXCEPT ![c] = rec]
    BY <1>4 DEF Goto, st
  <2> HIDE DEF rec
  <2>4. call' \in [Clients -> Short \cup Long] /\ Others(c)
        /\ (call'[c] = Idle \/ call'[c] = rec)
    <3>1. CASE call[c].op = "get"
      BY <2>3, <3>1, IdleShape, Moves DEF Typed
    <3>2. CASE call[c].op # "get"
      BY <2>2, <2>3, <3>2, Moves DEF Typed
    <3> QED BY <3>1, <3>2
  <2>6. TurnsTyped' /\ LinksTyped' /\ Linking(call[c].run)
    BY <1>1, <1>2, <1>4, LinksRun DEF Typed, Linking
  <2>7. ItemTyped' /\ RunsTyped' /\ Len(runs) <= Len(runs') /\ Counted'
    <3>1. Counted'
      BY <1>1, <1>4, FlagTyped DEF Typed
    <3>2. Len(runs') = Len(runs) /\ Len(runs) \in Nat /\ RunsTyped'
      BY <1>1, RunRows DEF Typed, RunsTyped
    <3> QED BY <1>2, <2>1, <3>1, <3>2 DEF ItemTyped
  <2>8. Carries(call[c])'
    <3>1. CASE call'[c] = Idle
      BY <3>1, IdleShape, RestCarries DEF Rests
    <3>2. CASE call'[c] = rec
      BY <1>1, <1>2, <2>2, <3>2 DEF Carries
    <3> QED BY <2>4, <3>1, <3>2
  <2>9. /\ CanReturn' <=> CanReturn
        /\ item'.status # "archived"
        /\ ~ (Seen(c)' /\ call'[c].st = "archived")
    <3>1. CASE call'[c] = Idle
      BY <2>0, <2>1, <3>1, IdleShape DEF CanReturn, Seen, SeenPcs
    <3>2. CASE call'[c] = rec
      BY <2>0, <2>1, <2>2, <3>2 DEF CanReturn
    <3> QED BY <2>4, <3>1, <3>2
  <2>10. Typed'
    BY <2>4, <2>6, <2>7, <2>8, <2>9, StaysTyped
  <2>11. Reports(c) /\ item'.run = call[c].run
    BY <1>4, <2>0, <2>1, <2>6 DEF Reports, SameItem, st
  <2>5. CASE call'[c] = Idle
    <3>1. Rests(c)
      BY <2>5, IdleShape DEF Rests
    <3> QED BY <1>1, <1>2, <2>4, <2>10, <2>11, <3>1
  <2>12. CASE call'[c] = rec
    BY <1>1, <1>2, <2>1, <2>2, <2>4, <2>10, <2>11, <2>12
  <2> QED BY <1>1, <1>2, <2>4, <2>5, <2>10, <2>11, <2>12
<1> QED BY <1>3, <1>4 DEF Sync

LEMMA RefusedEffect ==
    ASSUME Typed, NEW c \in Clients, Refused(c)
    PROVE  /\ Typed' /\ Others(c) /\ Rests(c) /\ call[c].pc = "act"
           /\ UNCHANGED <<item, turns, links, runs, ops, outdated, anomaly>>
<1>1. End(c) /\ Quiet /\ UNCHANGED <<item, turns, links, runs, ops, crashes>> /\ call[c].pc = "act"
  BY DEF Refused
<1>2. call' \in [Clients -> Short \cup Long] /\ Others(c) /\ Rests(c)
  BY <1>1, Ends DEF Typed
<1>3. Counted' /\ UNCHANGED <<outdated, anomaly>>
  BY <1>1, FlagTyped DEF Typed, Quiet
<1> QED BY <1>1, <1>2, <1>3, RestStaysTyped

LEMMA StartEffect ==
    ASSUME Typed, NEW c \in Clients, Start(c)
    PROVE  /\ Typed' /\ Others(c) /\ Rests(c) /\ call[c].pc = "act"
           /\ UNCHANGED <<item, turns, links, runs, ops, outdated, anomaly>>
<1>1. Quiet /\ UNCHANGED <<item, turns, links, runs, ops, crashes>> /\ call[c].pc = "act"
      /\ (Again(c, "restart") \/ Again(c, "settle"))
  BY DEF Start
<1>2. call' \in [Clients -> Short \cup Long] /\ Others(c) /\ Rests(c)
  <2>1. "restart" \in AllOps /\ "settle" \in AllOps
    BY DEF AllOps
  <2> QED BY <1>1, <2>1, GoesAgain DEF Typed, Rests
<1>3. Counted' /\ UNCHANGED <<outdated, anomaly>>
  BY <1>1, FlagTyped DEF Typed, Quiet
<1> QED BY <1>1, <1>2, <1>3, RestStaysTyped

LEMMA SettleEffect ==
    ASSUME Typed, NEW c \in Clients, Settle(c)
    PROVE  /\ Typed' /\ Others(c) /\ call[c].pc = "act" /\ call[c].op = "settle"
           /\ UNCHANGED <<item, turns, links, runs, ops, outdated, anomaly>>
           /\ \/ Rests(c)
              \/ /\ call'[c].pc = "read" /\ call'[c].op = "reconcile_only"
                 /\ call[c].run_st = "awaiting_one"
              \/ /\ call'[c].pc = "lease" /\ call'[c].op = "settle" /\ Continues(c)
                 /\ call'[c].run = call[c].run
<1>1. Quiet /\ UNCHANGED <<item, turns, links, runs, ops, crashes>> /\ call[c].pc = "act"
      /\ call[c].op = "settle" /\ Seen(c)
  BY DEF Settle, Seen, SeenPcs
<1>2. Counted' /\ UNCHANGED <<outdated, anomaly>>
  BY <1>1, FlagTyped DEF Typed, Quiet
<1>3. \/ Again(c, "cancel")
      \/ Again(c, "reconcile_only") /\ call[c].run_st = "awaiting_one"
      \/ Goto(c, [call[c] EXCEPT !.pc = "lease"]) /\ call[c].run_st = "interrupted"
  BY DEF Settle, Resolution
<1>4. CASE Again(c, "cancel")
  <2>1. "cancel" \in AllOps
    BY DEF AllOps, Operations
  <2>2. call' \in [Clients -> Short \cup Long] /\ Others(c) /\ Rests(c)
    BY <1>4, <2>1, GoesAgain DEF Typed, Rests
  <2> QED BY <1>1, <1>2, <2>2, RestStaysTyped
<1>5. CASE Again(c, "reconcile_only") /\ call[c].run_st = "awaiting_one"
  <2>1. "reconcile_only" \in AllOps
    BY DEF AllOps
  <2>2. call' \in [Clients -> Short \cup Long] /\ Others(c)
        /\ call'[c].pc = "read" /\ call'[c].op = "reconcile_only"
    BY <1>5, <2>1, GoesAgain DEF Typed
  <2>3. Carries(call[c])' /\ ~Seen(c)'
    BY <2>2 DEF Carries, Seen, SeenPcs
  <2> QED BY <1>1, <1>2, <1>5, <2>2, <2>3, StaysTypedAlone
<1>6. CASE Goto(c, [call[c] EXCEPT !.pc = "lease"]) /\ call[c].run_st = "interrupted"
  <2>1. "lease" \in SeenPcs
    BY DEF SeenPcs
  <2>2. /\ call' \in [Clients -> Short \cup Long] /\ Others(c) /\ Continues(c)
        /\ call'[c].pc = "lease" /\ call'[c].op = "settle" /\ call'[c].run = call[c].run
        /\ call'[c].run_st = call[c].run_st
    BY <1>1, <1>6, <2>1, PlacedCall DEF Typed
  <2>3. call[c].run # 0
    BY <1>1, <1>6, SeenIsLong DEF Typed
  <2>4. Typed'
    BY <1>1, <1>2, <2>2, <2>3, PlaceStaysTyped
  <2> QED BY <1>1, <1>2, <2>2, <2>4
<1> QED BY <1>3, <1>4, <1>5, <1>6

LEMMA ReconcileEffect ==
    ASSUME Typed, NEW c \in Clients, Reconcile(c)
    PROVE  /\ Typed' /\ Others(c) /\ call[c].pc = "act"
           /\ UNCHANGED <<item, turns, links, runs, ops, outdated, anomaly>>
           /\ call'[c].pc = "lease" /\ call'[c].op = call[c].op /\ Continues(c)
           /\ call'[c].run = call[c].run
<1>1. Quiet /\ UNCHANGED <<item, turns, links, runs, ops, crashes>> /\ call[c].pc = "act"
      /\ call[c].op \in {"reconcile", "reconcile_only"} /\ call[c].run # 0 /\ Seen(c)
      /\ Goto(c, [call[c] EXCEPT !.pc = "lease"]) /\ "lease" \in SeenPcs
  BY DEF Reconcile, Seen, SeenPcs
<1>2. Counted' /\ UNCHANGED <<outdated, anomaly>>
  BY <1>1, FlagTyped DEF Typed, Quiet
<1>3. /\ call' \in [Clients -> Short \cup Long] /\ Others(c) /\ Continues(c)
      /\ call'[c].pc = "lease" /\ call'[c].op = call[c].op /\ call'[c].run = call[c].run
      /\ call'[c].run_st = call[c].run_st
  BY <1>1, PlacedCall DEF Typed
<1>4. Typed'
  BY <1>1, <1>2, <1>3, PlaceStaysTyped
<1> QED BY <1>1, <1>2, <1>3, <1>4

LEMMA ContinueEffect ==
    ASSUME Typed, NEW c \in Clients, Continue(c)
    PROVE  /\ Typed' /\ Others(c) /\ Rests(c) /\ call[c].pc = "act"
           /\ UNCHANGED <<links, runs, ops>>
           /\ CanContinue(call[c].st, call[c].run_st)
           /\ \/ UNCHANGED <<item, turns, outdated, anomaly>>
              \/ /\ item.there /\ item'.there = item.there /\ item'.rev = call[c].rev + 1
                 /\ item'.status = "draft" /\ item'.run = 0 /\ Redirect(c)
                 /\ Len(turns') = Len(turns) + 1 /\ turns'[Len(turns) + 1].run = 0
                 /\ \A i \in 1..Len(turns) : turns'[i] = turns[i]
<1>1. /\ call[c].pc = "act" /\ Seen(c) /\ UNCHANGED <<links, runs, ops, crashes>>
      /\ CanContinue(call[c].st, call[c].run_st)
  BY DEF Continue, Seen, SeenPcs
<1>2. call[c] \in Long
  BY <1>1, SeenIsLong DEF Typed
<1>3. CASE End(c) /\ UNCHANGED <<item, turns>> /\ Quiet
  <2>1. call' \in [Clients -> Short \cup Long] /\ Others(c) /\ Rests(c)
    BY <1>3, Ends DEF Typed
  <2>2. Counted' /\ UNCHANGED <<outdated, anomaly>>
    BY <1>1, <1>3, FlagTyped DEF Typed, Quiet
  <2> QED BY <1>1, <1>3, <2>1, <2>2, RestStaysTyped
<1>4. CASE /\ item.there /\ item' = [Revised(c, call[c].n) EXCEPT !.hidden = FALSE]
           /\ turns' = Append(turns, [rev |-> call[c].rev + 1, run |-> 0])
           /\ Again(c, "start") /\ Redirect(c)
  <2>1. call' \in [Clients -> Short \cup Long] /\ Others(c) /\ Rests(c)
    <3>1. "start" \in AllOps
      BY DEF AllOps, Operations
    <3> QED BY <1>4, <3>1, GoesAgain DEF Typed, Rests
  <2>2. item \in ItemRow /\ call[c].rev + 1 \in Nat \ {0} /\ call[c].n \in 0..MaxOps
    BY <1>2 DEF Typed, ItemTyped, Long
  <2>3. /\ Revised(c, call[c].n) \in ItemRow /\ Revised(c, call[c].n).there = item.there
        /\ Revised(c, call[c].n).rev = call[c].rev + 1 /\ Revised(c, call[c].n).run = 0
        /\ Revised(c, call[c].n).status = "draft"
        /\ Revised(c, call[c].n).shelved = item.shelved
    BY <2>2 DEF Revised, ItemRow, ItemStatus
  <2>4. /\ item' \in ItemRow /\ item'.there = item.there /\ item'.rev = call[c].rev + 1
        /\ item'.status = "draft" /\ item'.run = 0 /\ item'.shelved = item.shelved
    BY <1>4, <2>3, ListedShape
  <2>5. [rev |-> call[c].rev + 1, run |-> 0] \in TurnRow
    BY <2>2 DEF TurnRow
  <2>6. /\ turns' \in Seq(TurnRow) /\ Len(turns') = Len(turns) + 1
        /\ \A i \in 1..Len(turns) : turns'[i] = turns[i]
        /\ turns'[Len(turns) + 1] = [rev |-> call[c].rev + 1, run |-> 0]
        /\ turns'[Len(turns) + 1].run = 0
    BY <1>4, <2>5, AppendProperties DEF Typed, TurnsTyped
  <2>7. TurnsTyped'
    <3>1. Len(runs) \in Nat /\ Len(turns) \in Nat /\ runs' = runs
      BY <1>1, RunRows DEF Typed, TurnsTyped
    <3>2. ASSUME NEW i \in 1..Len(turns') PROVE turns'[i].run <= Len(runs')
      <4>1. CASE i = Len(turns) + 1
        BY <2>6, <3>1, <4>1
      <4>2. CASE i \in 1..Len(turns)
        BY <2>6, <3>1, <4>2 DEF Typed, TurnsTyped
      <4> QED BY <2>6, <3>1, <4>1, <4>2
    <3> QED BY <2>6, <3>2 DEF TurnsTyped
  <2>8. ItemTyped' /\ RunsTyped' /\ LinksTyped' /\ Counted' /\ Len(runs) <= Len(runs')
    <3>1. Counted'
      BY <1>1, <1>4, FlagTyped DEF Typed
    <3>2. Len(runs) \in Nat /\ Len(runs') = Len(runs) /\ RunsTyped' /\ LinksTyped'
      BY <1>1, RunRows DEF Typed, RunsTyped, LinksTyped
    <3> QED BY <2>4, <3>1, <3>2 DEF ItemTyped
  <2>9. (CanReturn' <=> CanReturn) /\ item'.status # "archived"
    BY <2>4 DEF CanReturn
  <2>10. Typed'
    BY <2>1, <2>7, <2>8, <2>9, RestCarries, StaysTyped
  <2> QED BY <1>1, <1>4, <2>1, <2>4, <2>6, <2>10
<1> QED BY <1>3, <1>4 DEF Continue

\* Typed' of a step that rests its call and writes only the item.
LEMMA ItemStaysTyped ==
    ASSUME Typed, NEW c \in Clients, Others(c), call' \in [Clients -> Short \cup Long],
           Carries(call[c])', UNCHANGED <<runs, turns, links>>, Counted',
           item' \in ItemRow, item'.run = item.run \/ item'.run = 0,
           CanReturn => CanReturn', item'.status = "archived" => CanReturn',
           Seen(c)' /\ call'[c].st = "archived" => CanReturn'
    PROVE  Typed'
<1>1. Len(runs) \in Nat /\ Len(runs') = Len(runs) /\ RunsTyped'
  BY RunRows DEF Typed, RunsTyped
<1>2. LinksTyped' /\ TurnsTyped'
  BY DEF Typed, LinksTyped, TurnsTyped
<1>3. ItemTyped'
  BY <1>1 DEF Typed, ItemTyped
<1> QED BY <1>1, <1>2, <1>3, StaysTyped

LEMMA UpdateEffect ==
    ASSUME Typed, NEW c \in Clients, Update(c)
    PROVE  /\ Typed' /\ Others(c) /\ Rests(c) /\ call[c].pc = "act"
           /\ UNCHANGED <<turns, links, runs, ops>>
           /\ call[c].st \notin Busy
           /\ item'.there = item.there
           /\ \/ /\ item'.rev = call[c].rev + 1 /\ item'.status = "draft" /\ item'.run = 0
                 /\ Redirect(c)
              \/ /\ item'.rev = call[c].rev /\ item'.text = item.text
                 /\ item'.status = item.status /\ item'.run = item.run /\ Record(c)
<1>1. /\ call[c].pc = "act" /\ Seen(c) /\ UNCHANGED <<turns, links, runs, ops, crashes>>
      /\ call[c].st \notin Busy /\ Again(c, "get") /\ "get" \in AllOps
  BY DEF Update, Seen, SeenPcs, AllOps
<1>2. /\ item \in ItemRow /\ call[c].rev \in Nat \ {0} /\ call[c].rev + 1 \in Nat \ {0}
      /\ call[c].n \in 0..MaxOps
  BY <1>1, SeenIsLong DEF Typed, ItemTyped, Long
<1>3. call' \in [Clients -> Short \cup Long] /\ Others(c) /\ Rests(c)
  BY <1>1, GoesAgain DEF Typed, Rests
<1>4. CASE item' = [Revised(c, call[c].n) EXCEPT !.hidden = FALSE] /\ Redirect(c)
  <2>1. /\ Revised(c, call[c].n) \in ItemRow /\ Revised(c, call[c].n).there = item.there
        /\ Revised(c, call[c].n).rev = call[c].rev + 1 /\ Revised(c, call[c].n).run = 0
        /\ Revised(c, call[c].n).status = "draft"
        /\ Revised(c, call[c].n).shelved = item.shelved
    BY <1>2 DEF Revised, ItemRow, ItemStatus
  <2>2. /\ item' \in ItemRow /\ item'.there = item.there /\ item'.rev = call[c].rev + 1
        /\ item'.status = "draft" /\ item'.run = 0 /\ item'.shelved = item.shelved
    BY <1>4, <2>1, ListedShape
  <2>3. Counted'
    BY <1>1, <1>4, FlagTyped DEF Typed
  <2>4. (CanReturn' <=> CanReturn) /\ item'.status # "archived"
    BY <2>2 DEF CanReturn
  <2>5. Typed'
    BY <1>1, <1>3, <2>2, <2>3, <2>4, RestCarries, ItemStaysTyped
  <2> QED BY <1>1, <1>3, <1>4, <2>2, <2>5
<1>5. CASE item' = [item EXCEPT !.rev = call[c].rev, !.hidden = FALSE] /\ Record(c)
  <2>1. /\ item' \in ItemRow /\ item'.there = item.there /\ item'.rev = call[c].rev
        /\ item'.status = item.status /\ item'.run = item.run /\ item'.shelved = item.shelved
        /\ item'.text = item.text
    BY <1>2, <1>5, RetitledShape
  <2>2. Counted'
    BY <1>1, <1>5, FlagTyped DEF Typed
  <2>3. (CanReturn' <=> CanReturn) /\ (item'.status = "archived" => CanReturn')
    BY <2>1 DEF CanReturn, Typed, Shelving
  <2>4. Typed'
    BY <1>1, <1>3, <2>1, <2>2, <2>3, RestCarries, ItemStaysTyped
  <2> QED BY <1>1, <1>3, <1>5, <2>1, <2>4
<1> QED BY <1>4, <1>5 DEF Update

LEMMA RestartEffect ==
    ASSUME Typed, NEW c \in Clients, Restart(c)
    PROVE  /\ Typed' /\ Others(c) /\ call[c].pc = "act"
           /\ UNCHANGED <<turns, links, runs, ops>>
           /\ \/ /\ Rests(c) /\ CanRestart(call[c].st, call[c].run_st) /\ Redirect(c)
                 /\ item'.there = item.there
                 /\ item.there => /\ item'.rev = call[c].rev + 1 /\ item'.status = "draft"
                                  /\ item'.run = 0 /\ item'.text = item.text
                 /\ ~item.there => item' = item
              \/ /\ Continues(c) /\ call'[c].pc = "act" /\ call'[c].op = "launch"
                 /\ call'[c].run = call[c].run /\ call'[c].run_st = call[c].run_st
                 /\ UNCHANGED <<item, outdated, anomaly>>
<1>1. /\ call[c].pc = "act" /\ Seen(c) /\ UNCHANGED <<turns, links, runs, ops, crashes>>
      /\ "launch" \in AllOps
  BY DEF Restart, Seen, SeenPcs, AllOps
<1>2. /\ item \in ItemRow /\ call[c] \in Long /\ call[c].rev + 1 \in Nat \ {0}
      /\ item.text \in 0..MaxOps
  BY <1>1, SeenIsLong DEF Typed, ItemTyped, Long, ItemRow
<1>3. CASE /\ CanRestart(call[c].st, call[c].run_st) /\ Again(c, "launch") /\ Redirect(c)
           /\ item' = IF item.there THEN Revised(c, item.text) ELSE item
  <2>1. call' \in [Clients -> Short \cup Long] /\ Others(c) /\ Rests(c)
    BY <1>1, <1>3, GoesAgain DEF Typed, Rests
  <2>2. /\ Revised(c, item.text) \in ItemRow /\ Revised(c, item.text).there = item.there
        /\ Revised(c, item.text).rev = call[c].rev + 1 /\ Revised(c, item.text).run = 0
        /\ Revised(c, item.text).status = "draft" /\ Revised(c, item.text).text = item.text
        /\ Revised(c, item.text).shelved = item.shelved
    BY <1>2 DEF Revised, ItemRow, ItemStatus
  <2>3. Counted'
    BY <1>1, <1>3, FlagTyped DEF Typed
  <2>4. /\ item' \in ItemRow /\ (item'.run = item.run \/ item'.run = 0)
        /\ item'.there = item.there
        /\ CanReturn' <=> CanReturn
        /\ item'.status = "archived" => CanReturn'
    <3>1. CASE item.there
      BY <1>3, <2>2, <3>1 DEF CanReturn
    <3>2. CASE ~item.there
      BY <1>2, <1>3, <3>2 DEF CanReturn, Typed, Shelving
    <3> QED BY <3>1, <3>2
  <2>5. Typed'
    BY <1>1, <2>1, <2>3, <2>4, RestCarries, ItemStaysTyped
  <2> QED BY <1>1, <1>3, <2>1, <2>2, <2>4, <2>5
<1>4. CASE Goto(c, [call[c] EXCEPT !.op = "launch"]) /\ UNCHANGED item /\ Quiet
  <2> DEFINE rec == [call[c] EXCEPT !.op = "launch"]
  <2>1. rec \in Long /\ rec.pc = "act" /\ rec.op = "launch" /\ rec.st = call[c].st
        /\ rec.rev = call[c].rev /\ rec.run = call[c].run /\ rec.run_st = call[c].run_st
        /\ rec.text = call[c].text
    BY <1>1, <1>2, OpShape
  <2>2. call' = [call EXCEPT ![c] = rec]
    BY <1>4 DEF Goto
  <2> HIDE DEF rec
  <2>3. call' \in [Clients -> Short \cup Long] /\ call'[c] = rec /\ Others(c)
    BY <2>1, <2>2, Moves DEF Typed
  <2>4. Counted' /\ UNCHANGED <<outdated, anomaly>>
    BY <1>1, <1>4, FlagTyped DEF Typed, Quiet
  <2>5. Continues(c) /\ call'[c].pc = "act" /\ call'[c].op = "launch"
        /\ call'[c].run = call[c].run /\ call'[c].run_st = call[c].run_st
    BY <2>1, <2>3 DEF Continues
  <2>6. Typed'
    BY <1>1, <1>4, <2>3, <2>4, <2>5, PlaceStaysTyped
  <2> QED BY <1>1, <1>4, <2>3, <2>4, <2>5, <2>6
<1> QED BY <1>3, <1>4 DEF Restart

LEMMA MarkStartedEffect ==
    ASSUME Typed, NEW c \in Clients, MarkStarted(c)
    PROVE  /\ Typed' /\ Others(c) /\ call[c].pc = "act" /\ CanLaunch(call[c].st)
           /\ UNCHANGED <<turns, links, runs, ops>>
           /\ \/ Rests(c) /\ UNCHANGED <<item, outdated, anomaly>>
              \/ /\ item.there /\ Continues(c) /\ call'[c].pc = "create"
                 /\ call'[c].op = "launch" /\ call'[c].run = call[c].run
                 /\ \/ item.status \in Busy /\ UNCHANGED <<item, outdated, anomaly>>
                    \/ /\ Redirect(c) /\ SameItem /\ item'.run = item.run
                       /\ item'.status = "running"
<1>1. /\ call[c].pc = "act" /\ Seen(c) /\ UNCHANGED <<turns, links, runs, ops, crashes>>
      /\ call[c].op = "launch" /\ CanLaunch(call[c].st) /\ "create" \in SeenPcs
  BY DEF MarkStarted, Seen, SeenPcs
<1>2. CASE End(c) /\ UNCHANGED item /\ Quiet
  <2>1. call' \in [Clients -> Short \cup Long] /\ Others(c) /\ Rests(c)
    BY <1>2, Ends DEF Typed
  <2>2. Counted' /\ UNCHANGED <<outdated, anomaly>>
    BY <1>1, <1>2, FlagTyped DEF Typed, Quiet
  <2> QED BY <1>1, <1>2, <2>1, <2>2, RestStaysTyped
<1>3. CASE item.there /\ Goto(c, [call[c] EXCEPT !.pc = "create"])
  <2>1. /\ call' \in [Clients -> Short \cup Long] /\ Others(c) /\ Continues(c)
        /\ call'[c].pc = "create" /\ call'[c].op = "launch" /\ call'[c].run = call[c].run
        /\ call'[c].run_st = call[c].run_st
    BY <1>1, <1>3, PlacedCall DEF Typed
  <2>2. CASE item.status \in Busy /\ UNCHANGED item /\ Quiet
    <3>1. Counted' /\ UNCHANGED <<outdated, anomaly>>
      BY <1>1, <2>2, FlagTyped DEF Typed, Quiet
    <3>2. Typed'
      BY <1>1, <2>1, <2>2, <3>1, PlaceStaysTyped
    <3> QED BY <1>1, <1>3, <2>1, <2>2, <3>1, <3>2
  <2>3. CASE item' = [item EXCEPT !.status = "running", !.hidden = FALSE] /\ Redirect(c)
    <3>1. item \in ItemRow /\ "running" \in ItemStatus
      BY DEF Typed, ItemTyped, ItemStatus
    <3>2. /\ item' \in ItemRow /\ item'.there = item.there /\ item'.rev = item.rev
          /\ item'.status = "running" /\ item'.run = item.run /\ item'.shelved = item.shelved
          /\ item'.text = item.text
      BY <2>3, <3>1 DEF ItemRow
    <3>3. Counted'
      BY <1>1, <2>3, FlagTyped DEF Typed
    <3>4. Carries(call[c])'
      <4>1. /\ call[c].run \in 0..Len(runs) /\ Len(runs') = Len(runs)
            /\ call[c].run = 0 => call[c].run_st \in {"none", "failed"}
        BY <1>1, SeenIsLong DEF Typed
      <4> QED BY <2>1, <4>1 DEF Carries, Continues
    <3>5. /\ CanReturn' <=> CanReturn
          /\ item'.status # "archived"
          /\ call'[c].st # "archived"
      BY <1>1, <2>1, <3>2 DEF CanReturn, Continues, CanLaunch
    <3>6. Typed'
      BY <1>1, <2>1, <3>2, <3>3, <3>4, <3>5, ItemStaysTyped
    <3> QED BY <1>1, <1>3, <2>1, <2>3, <3>2, <3>6 DEF SameItem
  <2> QED BY <1>3, <2>1, <2>2, <2>3, <1>1 DEF MarkStarted, End, Goto
<1> QED BY <1>2, <1>3 DEF MarkStarted

\* Typed' of a step that rewrites runs in place, or adds one, and no other row.
LEMMA RunsStayTyped ==
    ASSUME Typed, NEW c \in Clients, Others(c), call' \in [Clients -> Short \cup Long],
           Carries(call[c])', RunsTyped', Len(runs) <= Len(runs'),
           UNCHANGED <<item, turns, links>>, Counted',
           Seen(c)' /\ call'[c].st = "archived" => Seen(c) /\ call[c].st = "archived"
    PROVE  Typed'
<1>1. Len(runs) \in Nat /\ Len(runs') \in Nat
  BY DEF Typed, RunsTyped
<1>2. ItemTyped'
  <2>1. item' = item /\ item \in ItemRow /\ item.run \in Nat /\ item.run <= Len(runs)
    BY DEF Typed, ItemTyped, ItemRow
  <2> QED BY <1>1, <2>1 DEF ItemTyped
<1>3. TurnsTyped'
  <2>1. turns' = turns /\ turns \in Seq(TurnRow)
        /\ \A i \in 1..Len(turns) : turns[i] \in TurnRow /\ turns[i].run <= Len(runs)
    BY DEF Typed, TurnsTyped
  <2>2. \A i \in 1..Len(turns) : turns[i].run \in Nat
    BY <2>1 DEF TurnRow
  <2>3. \A i \in 1..Len(turns) : turns[i].run <= Len(runs')
    BY <1>1, <2>1, <2>2
  <2> QED BY <2>1, <2>3 DEF TurnsTyped
<1>4. LinksTyped'
  BY <1>1 DEF Typed, LinksTyped
<1>5. /\ CanReturn' <=> CanReturn
      /\ item'.status = "archived" => CanReturn'
      /\ Seen(c)' /\ call'[c].st = "archived" => CanReturn'
  BY DEF Typed, Shelving, CanReturn
<1> QED BY <1>2, <1>3, <1>4, <1>5, StaysTyped

\* A call that continues carries what it carried.
LEMMA ContinuesCarries ==
    ASSUME CallsTyped, NEW c \in Clients, Seen(c), Continues(c), call'[c].run = call[c].run,
           call'[c].run_st = call[c].run_st \/ call[c].run # 0,
           call'[c].pc \in {"sync", "lease", "execute"} => call[c].run # 0,
           call'[c].pc \in {"sync", "record"} => call'[c].run_st # "none",
           call'[c].pc = "lease" => call'[c].op \in {"launch", "settle", "reconcile", "reconcile_only"},
           call'[c].pc = "create" => call'[c].op = "launch",
           Len(runs) \in Nat, Len(runs') \in Nat, Len(runs) <= Len(runs')
    PROVE  Carries(call[c])'
<1>1. /\ call[c].run \in 0..Len(runs)
      /\ call[c].run = 0 => call[c].run_st \in {"none", "failed"}
  BY SeenIsLong
<1> QED BY <1>1 DEF Carries, Continues

\* A row added for a revision that has none.
Adds(c) ==
    /\ RunsTyped' /\ Len(runs') = Len(runs) + 1
    /\ \A r \in 1..Len(runs) : runs'[r] = runs[r]
    /\ LET new == runs'[Len(runs) + 1]
       IN /\ new.there /\ new.key = call[c].rev /\ new.text = call[c].text
          /\ new.status = "pending" /\ new.owner = NoClient

LEMMA CreateRunEffect ==
    ASSUME Typed, NEW c \in Clients, CreateRun(c)
    PROVE  /\ Typed' /\ Others(c) /\ call[c].pc = "create"
           /\ UNCHANGED <<item, turns, links, ops>>
           /\ \/ /\ Continues(c) /\ call'[c].pc = "record" /\ call'[c].run = 0
                 /\ UNCHANGED <<runs, outdated, anomaly>>
              \/ /\ Continues(c) /\ call'[c].pc = "lease" /\ call'[c].op = call[c].op
                 /\ KnownRun(call[c].rev) # 0 /\ call'[c].run = KnownRun(call[c].rev)
                 /\ runs[KnownRun(call[c].rev)].text = call[c].text
                 /\ UNCHANGED <<runs, outdated, anomaly>>
              \/ /\ Rests(c) /\ KnownRun(call[c].rev) = 0 /\ ~item.there
                 /\ UNCHANGED <<runs, outdated, anomaly>>
              \/ /\ Continues(c) /\ call'[c].pc = "lease" /\ call'[c].op = call[c].op
                 /\ KnownRun(call[c].rev) = 0 /\ item.there
                 /\ Adds(c) /\ call'[c].run = Len(runs) + 1 /\ Record(c)
           /\ KnownRun(call[c].rev) # 0 => call'[c].pc \in {"record", "lease"}
<1> DEFINE my == call[c]
           old == KnownRun(my.rev)
<1>1. /\ my.pc = "create" /\ Seen(c) /\ UNCHANGED <<item, turns, links, ops, crashes>>
  BY DEF CreateRun, Seen, SeenPcs
<1>2. /\ my \in Long /\ Len(runs) \in Nat /\ old \in 0..Len(runs) /\ my.op \in AllOps
      /\ my.rev \in Nat \ {0} /\ my.text \in 0..MaxOps
  BY <1>1, SeenIsLong, RunRows, KnownRunIsOne DEF Typed, Long
<1>3. CASE Goto(c, [my EXCEPT !.pc = "record", !.run = 0, !.run_st = "failed"])
           /\ UNCHANGED runs /\ Quiet
  <2> DEFINE rec == [my EXCEPT !.pc = "record", !.run = 0, !.run_st = "failed"]
  <2>1. rec \in Long /\ rec.pc = "record" /\ rec.op = my.op /\ rec.st = my.st
        /\ rec.rev = my.rev /\ rec.run = 0 /\ rec.run_st = "failed" /\ rec.text = my.text
    BY <1>2 DEF Long, SeenPcs, RunStatus, Terminal
  <2>2. call' = [call EXCEPT ![c] = rec]
    BY <1>3 DEF Goto
  <2> HIDE DEF rec
  <2>3. call' \in [Clients -> Short \cup Long] /\ call'[c] = rec /\ Others(c)
    BY <2>1, <2>2, Moves DEF Typed
  <2>4. Counted' /\ UNCHANGED <<outdated, anomaly>>
    BY <1>1, <1>3, FlagTyped DEF Typed, Quiet
  <2>5. Carries(call[c])' /\ Continues(c)
    BY <1>2, <1>3, <2>1, <2>3 DEF Carries, Continues
  <2>6. Typed'
    BY <1>1, <1>3, <2>1, <2>3, <2>4, <2>5, StaysTypedAlone
  <2> QED BY <1>1, <1>3, <2>1, <2>3, <2>4, <2>5, <2>6
<1>4. CASE /\ old # 0 /\ runs[old].text = my.text
           /\ Goto(c, [my EXCEPT !.pc = "lease", !.run = old]) /\ UNCHANGED runs /\ Quiet
  <2> DEFINE rec == [my EXCEPT !.pc = "lease", !.run = old]
  <2>0. old \in Nat /\ old <= Len(runs) /\ old # 0
    BY <1>2, <1>4
  <2> HIDE DEF old
  <2>1. rec \in Long /\ rec.pc = "lease" /\ rec.op = my.op /\ rec.st = my.st
        /\ rec.rev = my.rev /\ rec.run = old /\ rec.run_st = my.run_st /\ rec.text = my.text
    BY <1>2, <2>0 DEF Long, SeenPcs
  <2>2. call' = [call EXCEPT ![c] = rec]
    BY <1>4 DEF Goto
  <2> HIDE DEF rec
  <2>3. call' \in [Clients -> Short \cup Long] /\ call'[c] = rec /\ Others(c)
    BY <2>1, <2>2, Moves DEF Typed
  <2>4. Counted' /\ UNCHANGED <<outdated, anomaly>>
    BY <1>1, <1>4, FlagTyped DEF Typed, Quiet
  <2>5. my.op = "launch"
    BY <1>1 DEF Typed, CallsTyped, Carries
  <2>6. Carries(call[c])' /\ Continues(c)
    BY <1>2, <1>4, <2>0, <2>1, <2>3, <2>5 DEF Carries, Continues
  <2>7. Typed'
    BY <1>1, <1>4, <2>1, <2>3, <2>4, <2>6, StaysTypedAlone
  <2> QED BY <1>1, <1>4, <2>1, <2>3, <2>4, <2>6, <2>7 DEF old
<1>5. CASE old = 0 /\ ~item.there /\ End(c) /\ UNCHANGED runs /\ Quiet
  <2>1. call' \in [Clients -> Short \cup Long] /\ Others(c) /\ Rests(c)
    BY <1>5, Ends DEF Typed
  <2>2. Counted' /\ UNCHANGED <<outdated, anomaly>>
    BY <1>1, <1>5, FlagTyped DEF Typed, Quiet
  <2> QED BY <1>1, <1>5, <2>1, <2>2, RestStaysTyped
<1>6. CASE /\ old = 0 /\ item.there
           /\ runs' = Append(runs, [there |-> TRUE, key |-> my.rev, text |-> my.text,
                                    status |-> "pending", owner |-> NoClient])
           /\ Goto(c, [my EXCEPT !.pc = "lease", !.run = Len(runs) + 1])
           /\ Record(c)
  <2> DEFINE k == Len(runs) + 1
             new == [there |-> TRUE, key |-> my.rev, text |-> my.text,
                     status |-> "pending", owner |-> NoClient]
             rec == [my EXCEPT !.pc = "lease", !.run = k]
  <2>0. k \in Nat /\ k # 0
    BY <1>2
  <2> HIDE DEF k
  <2>1. rec \in Long /\ rec.pc = "lease" /\ rec.op = my.op /\ rec.st = my.st
        /\ rec.rev = my.rev /\ rec.run = k /\ rec.run_st = my.run_st /\ rec.text = my.text
    BY <1>2, <2>0 DEF Long, SeenPcs
  <2>2. call' = [call EXCEPT ![c] = rec]
    BY <1>6 DEF Goto, k
  <2> HIDE DEF rec
  <2>3. call' \in [Clients -> Short \cup Long] /\ call'[c] = rec /\ Others(c)
    BY <2>1, <2>2, Moves DEF Typed
  <2>4. Counted'
    BY <1>1, <1>6, FlagTyped DEF Typed
  <2>5. my.op = "launch"
    BY <1>1 DEF Typed, CallsTyped, Carries
  <2>6. /\ new \in RunRow /\ new.there = TRUE /\ new.key = my.rev /\ new.text = my.text
        /\ new.status = "pending" /\ new.owner = NoClient
    BY <1>2 DEF RunRow, RunStatus
  <2> HIDE DEF new
  <2>7. runs' = Append(runs, new)
    BY <1>6 DEF new
  <2>8. /\ runs' \in Seq(RunRow) /\ Len(runs') = Len(runs) + 1
        /\ \A r \in 1..Len(runs) : runs'[r] = runs[r]
        /\ runs'[Len(runs) + 1] = new
    BY <2>6, <2>7, AppendProperties DEF Typed, RunsTyped
  <2>9. Adds(c)
    BY <2>6, <2>8 DEF Adds, RunsTyped
  <2>10. Carries(call[c])' /\ Continues(c)
    <3>1. Len(runs') = k
      BY <2>8 DEF k
    <3> QED BY <2>0, <2>1, <2>3, <2>5, <3>1 DEF Carries, Continues
  <2>11. Typed'
    <3>1. Len(runs) <= Len(runs') /\ RunsTyped'
      BY <1>2, <2>8 DEF RunsTyped
    <3>2. call'[c].st = call[c].st
      BY <2>10 DEF Continues
    <3> QED BY <1>1, <2>3, <2>4, <2>10, <3>1, <3>2, RunsStayTyped
  <2> QED BY <1>1, <1>6, <2>1, <2>3, <2>9, <2>10, <2>11 DEF k
<1> HIDE DEF my, old
<1>7. \/ Goto(c, [my EXCEPT !.pc = "record", !.run = 0, !.run_st = "failed"])
           /\ UNCHANGED runs /\ Quiet
      \/ /\ old # 0 /\ runs[old].text = my.text
         /\ Goto(c, [my EXCEPT !.pc = "lease", !.run = old]) /\ UNCHANGED runs /\ Quiet
      \/ old = 0 /\ ~item.there /\ End(c) /\ UNCHANGED runs /\ Quiet
      \/ /\ old = 0 /\ item.there
         /\ runs' = Append(runs, [there |-> TRUE, key |-> my.rev, text |-> my.text,
                                  status |-> "pending", owner |-> NoClient])
         /\ Goto(c, [my EXCEPT !.pc = "lease", !.run = Len(runs) + 1])
         /\ Record(c)
  BY DEF CreateRun, my, old
<1> QED BY <1>3, <1>4, <1>5, <1>6, <1>7

\* Only one run changes, and only its status and its owner.
Changes(r, s, o) ==
    /\ SameRuns /\ runs'[r].status = s /\ runs'[r].owner = o
    /\ \A q \in 1..Len(runs) : q # r => runs'[q] = runs[q]

LEMMA TakesIsChanges ==
    ASSUME RunsTyped, NEW c \in Clients, NEW r \in 1..Len(runs), NEW s \in RunStatus, Take(c, r, s)
    PROVE  /\ RunsTyped' /\ Changes(r, s, IF s = "running" THEN c ELSE NoClient)
           /\ Len(runs') = Len(runs)
  BY TakesRun DEF Changes, SameRuns

LEMMA LeaseEffect ==
    ASSUME Typed, NEW c \in Clients, Lease(c)
    PROVE  /\ Typed' /\ Others(c) /\ call[c].pc = "lease" /\ call[c].run \in 1..Len(runs)
           /\ UNCHANGED <<item, turns, links, ops>>
           /\ \/ Rests(c) /\ UNCHANGED <<runs, outdated, anomaly>>
              \/ /\ Continues(c) /\ call'[c].op = call[c].op /\ call'[c].run = call[c].run
                 /\ \/ /\ call'[c].pc = "record"
                       /\ UNCHANGED <<runs, outdated, anomaly>>
                    \/ /\ call'[c].pc = "record"
                       /\ runs[call[c].run].status = "cancelling"
                       /\ runs[call[c].run].owner = NoClient
                       /\ Changes(call[c].run, "cancelled", NoClient)
                       /\ UNCHANGED <<outdated, anomaly>>
                    \/ /\ call'[c].pc = "record"
                       /\ runs[call[c].run].status \in Parked
                       /\ \E t \in {"failed", "approved"} : Changes(call[c].run, t, NoClient)
                       /\ Record(c)
                    \/ /\ call'[c].pc = "execute" /\ Execution(c)
                       /\ runs[call[c].run].there
                       /\ runs[call[c].run].status \in {"awaiting", "pending", "running", "interrupted"}
                       /\ runs[call[c].run].status # "awaiting" =>
                             runs[call[c].run].owner = NoClient
                       /\ Changes(call[c].run, "running", c)
<1> DEFINE my == call[c]
           s == StatusOf(my.run)
<1>1. /\ my.pc = "lease" /\ Seen(c) /\ UNCHANGED <<item, turns, links, ops, crashes>>
  BY DEF Lease, Seen, SeenPcs
<1>2. /\ my \in Long /\ Len(runs) \in Nat /\ my.run \in 1..Len(runs) /\ my.run # 0
      /\ my.op \in {"launch", "settle", "reconcile", "reconcile_only"}
  <2>1. my \in Long /\ my.run \in 0..Len(runs) /\ my.run # 0
        /\ my.op \in {"launch", "settle", "reconcile", "reconcile_only"}
    BY <1>1, SeenIsLong DEF Typed, CallsTyped, Carries
  <2> QED BY <2>1, RunRows DEF Typed
<1>3. s \in RunStatus \cup {"none"} /\ (s # "none" => runs[my.run].there /\ s = runs[my.run].status)
  BY <1>2, StatusOfRuns DEF Typed, StatusOf
<1>4. CASE End(c) /\ UNCHANGED runs /\ Quiet
  <2>1. call' \in [Clients -> Short \cup Long] /\ Others(c) /\ Rests(c)
    BY <1>4, Ends DEF Typed
  <2>2. Counted' /\ UNCHANGED <<outdated, anomaly>>
    BY <1>1, <1>4, FlagTyped DEF Typed, Quiet
  <2> QED BY <1>1, <1>2, <1>4, <2>1, <2>2, RestStaysTyped
\* The result of a call whose runs are typed and as many as before.
<1>5. ASSUME NEW t \in RunStatus, Result(c, t), RunsTyped', Len(runs') = Len(runs), Counted'
      PROVE  /\ Typed' /\ Others(c) /\ Continues(c) /\ call'[c].pc = "record"
             /\ call'[c].op = my.op /\ call'[c].run = my.run
  <2>1. /\ call' \in [Clients -> Short \cup Long] /\ Others(c) /\ Continues(c)
        /\ call'[c].pc = "record" /\ call'[c].op = my.op /\ call'[c].run = my.run
        /\ call'[c].run_st = t /\ t # "none"
    BY <1>1, <1>5, ResultCall DEF Typed, RunStatus, Terminal, Parked
  <2>2. Carries(call[c])'
    BY <1>1, <1>2, <1>5, <2>1, ContinuesCarries DEF Typed
  <2>3. Seen(c)' /\ call'[c].st = "archived" => Seen(c) /\ call[c].st = "archived"
    BY <1>1, <2>1 DEF Continues
  <2>4. Typed'
    BY <1>1, <1>2, <1>5, <2>1, <2>2, <2>3, RunsStayTyped
  <2> QED BY <2>1, <2>4
<1>6. ASSUME NEW t \in RunStatus, Result(c, t), UNCHANGED runs, Quiet
      PROVE  /\ Typed' /\ Others(c) /\ Continues(c) /\ call'[c].pc = "record"
             /\ call'[c].op = my.op /\ call'[c].run = my.run
             /\ UNCHANGED <<runs, outdated, anomaly>>
  <2>1. Counted' /\ UNCHANGED <<outdated, anomaly>>
    BY <1>1, <1>6, FlagTyped DEF Typed, Quiet
  <2>2. RunsTyped' /\ Len(runs') = Len(runs)
    BY <1>6 DEF Typed, RunsTyped
  <2> QED BY <1>5, <1>6, <2>1, <2>2
<1>7. CASE s \in Terminal /\ Result(c, s) /\ UNCHANGED runs /\ Quiet
  <2>1. s \in RunStatus
    BY <1>7 DEF RunStatus
  <2> QED BY <1>1, <1>2, <1>6, <1>7, <2>1
<1>8. CASE Result(c, "running") /\ UNCHANGED runs /\ Quiet
  <2>1. "running" \in RunStatus
    BY DEF RunStatus
  <2> QED BY <1>1, <1>2, <1>6, <1>8, <2>1
<1>9. CASE /\ s = "cancelling" /\ runs[my.run].owner = NoClient
           /\ Take(c, my.run, "cancelled") /\ Result(c, "cancelled") /\ Quiet
  <2>1. "cancelled" \in RunStatus
    BY DEF RunStatus, Terminal
  <2>2. RunsTyped' /\ Changes(my.run, "cancelled", NoClient) /\ Len(runs') = Len(runs)
    BY <1>2, <1>9, <2>1, TakesIsChanges DEF Typed
  <2>3. Counted' /\ UNCHANGED <<outdated, anomaly>>
    BY <1>1, <1>9, FlagTyped DEF Typed, Quiet
  <2> QED BY <1>1, <1>2, <1>3, <1>5, <1>9, <2>1, <2>2, <2>3
<1>10. CASE s \in Parked /\ Result(c, s) /\ UNCHANGED runs /\ Quiet
  <2>1. s \in RunStatus
    BY <1>10 DEF RunStatus, Parked
  <2> QED BY <1>1, <1>2, <1>6, <1>10, <2>1
<1>11. ASSUME s \in Parked, NEW t \in {"failed", "approved"},
              Take(c, my.run, t), Result(c, t), Record(c)
       PROVE  /\ Typed' /\ Others(c) /\ Continues(c) /\ call'[c].pc = "record"
              /\ call'[c].op = my.op /\ call'[c].run = my.run
              /\ runs[my.run].status \in Parked /\ Changes(my.run, t, NoClient)
  <2>1. t \in RunStatus /\ t # "running"
    BY DEF RunStatus, Terminal
  <2>2. RunsTyped' /\ Changes(my.run, t, NoClient) /\ Len(runs') = Len(runs)
    BY <1>2, <1>11, <2>1, TakesIsChanges DEF Typed
  <2>3. Counted'
    BY <1>1, <1>11, FlagTyped DEF Typed
  <2>4. runs[my.run].status \in Parked
    BY <1>3, <1>11 DEF Parked
  <2> QED BY <1>5, <1>11, <2>1, <2>2, <2>3, <2>4
<1>12. ASSUME s \in {"awaiting", "pending", "running", "interrupted"},
              s # "awaiting" => runs[my.run].owner = NoClient,
              Take(c, my.run, "running"), Execution(c)
       PROVE  /\ Typed' /\ Others(c) /\ Continues(c) /\ call'[c].pc = "execute"
              /\ call'[c].op = my.op /\ call'[c].run = my.run
              /\ runs[my.run].there /\ runs[my.run].status = s
              /\ Changes(my.run, "running", c)
  <2>1. "running" \in RunStatus /\ "execute" \in SeenPcs
    BY DEF RunStatus, SeenPcs
  <2>2. RunsTyped' /\ Changes(my.run, "running", c) /\ Len(runs') = Len(runs)
    BY <1>2, <1>12, <2>1, TakesIsChanges DEF Typed
  <2>3. /\ call' \in [Clients -> Short \cup Long] /\ Others(c) /\ Continues(c)
        /\ call'[c].pc = "execute" /\ call'[c].op = my.op /\ call'[c].run = my.run
        /\ call'[c].run_st = my.run_st
    BY <1>1, <1>12, <2>1, PlacedCall DEF Typed, Execution
  <2>4. Counted'
    BY <1>1, <1>12 DEF Typed, Counted, Execution
  <2>5. Carries(call[c])'
    BY <1>1, <1>2, <2>2, <2>3, ContinuesCarries DEF Typed
  <2>6. Seen(c)' /\ call'[c].st = "archived" => Seen(c) /\ call[c].st = "archived"
    BY <1>1, <2>3 DEF Continues
  <2>7. Typed'
    BY <1>1, <1>2, <2>2, <2>3, <2>4, <2>5, <2>6, RunsStayTyped
  <2>8. runs[my.run].there /\ runs[my.run].status = s
    BY <1>3, <1>12
  <2> QED BY <2>2, <2>3, <2>7, <2>8
<1> HIDE DEF my, s
<1>13. \/ End(c) /\ UNCHANGED runs /\ Quiet
       \/ s \in Terminal /\ Result(c, s) /\ UNCHANGED runs /\ Quiet
       \/ Result(c, "running") /\ UNCHANGED runs /\ Quiet
       \/ /\ s = "cancelling" /\ runs[my.run].owner = NoClient
          /\ Take(c, my.run, "cancelled") /\ Result(c, "cancelled") /\ Quiet
       \/ s \in Parked /\ Result(c, s) /\ UNCHANGED runs /\ Quiet
       \/ /\ s \in Parked
          /\ \E t \in {"failed", "approved"} :
                Take(c, my.run, t) /\ Result(c, t) /\ Record(c)
       \/ /\ s \in {"awaiting", "pending", "running", "interrupted"}
          /\ s # "awaiting" => runs[my.run].owner = NoClient
          /\ Take(c, my.run, "running") /\ Execution(c)
  BY DEF Lease, my, s
<1>14. CASE /\ s \in Parked
            /\ \E t \in {"failed", "approved"} :
                  Take(c, my.run, t) /\ Result(c, t) /\ Record(c)
  BY <1>1, <1>2, <1>11, <1>14 DEF my
<1>15. CASE /\ s \in {"awaiting", "pending", "running", "interrupted"}
            /\ s # "awaiting" => runs[my.run].owner = NoClient
            /\ Take(c, my.run, "running") /\ Execution(c)
  BY <1>1, <1>2, <1>12, <1>15 DEF my
<1> QED BY <1>4, <1>7, <1>8, <1>9, <1>10, <1>13, <1>14, <1>15

LEMMA ExecuteEffect ==
    ASSUME Typed, NEW c \in Clients, Execute(c)
    PROVE  /\ Typed' /\ Others(c) /\ call[c].pc = "execute" /\ call[c].run \in 1..Len(runs)
           /\ UNCHANGED <<item, turns, links, ops, outdated, anomaly>>
           /\ \/ Rests(c) /\ ~runs[call[c].run].there /\ UNCHANGED runs
              \/ /\ Continues(c) /\ call'[c].pc = "record" /\ call'[c].run = call[c].run
                 /\ runs[call[c].run].there
                 /\ \E t \in Terminal \cup Parked : Changes(call[c].run, t, NoClient)
<1> DEFINE my == call[c]
<1>1. /\ my.pc = "execute" /\ Seen(c) /\ UNCHANGED <<item, turns, links, ops, crashes>> /\ Quiet
  BY DEF Execute, Seen, SeenPcs
<1>2. /\ my \in Long /\ Len(runs) \in Nat /\ my.run \in 1..Len(runs) /\ my.run # 0
  <2>1. my \in Long /\ my.run \in 0..Len(runs) /\ my.run # 0
    BY <1>1, SeenIsLong DEF Typed, CallsTyped, Carries
  <2> QED BY <2>1, RunRows DEF Typed
<1>3. Counted' /\ UNCHANGED <<outdated, anomaly>>
  BY <1>1, FlagTyped DEF Typed, Quiet
<1>4. CASE ~runs[my.run].there /\ End(c) /\ UNCHANGED runs
  <2>1. call' \in [Clients -> Short \cup Long] /\ Others(c) /\ Rests(c)
    BY <1>4, Ends DEF Typed
  <2> QED BY <1>1, <1>2, <1>3, <1>4, <2>1, RestStaysTyped
<1>5. ASSUME NEW t \in Terminal \cup Parked, Take(c, my.run, t), Result(c, t)
      PROVE  /\ Typed' /\ Others(c) /\ Continues(c) /\ call'[c].pc = "record"
             /\ call'[c].run = my.run /\ Changes(my.run, t, NoClient)
  <2>1. t \in RunStatus /\ t # "running" /\ t # "none"
    BY DEF RunStatus, Terminal, Parked
  <2>2. RunsTyped' /\ Changes(my.run, t, NoClient) /\ Len(runs') = Len(runs)
    BY <1>2, <1>5, <2>1, TakesIsChanges DEF Typed
  <2>3. /\ call' \in [Clients -> Short \cup Long] /\ Others(c) /\ Continues(c)
        /\ call'[c].pc = "record" /\ call'[c].op = my.op /\ call'[c].run = my.run
        /\ call'[c].run_st = t
    BY <1>1, <1>5, <2>1, ResultCall DEF Typed
  <2>4. Carries(call[c])'
    BY <1>1, <1>2, <2>1, <2>2, <2>3, ContinuesCarries DEF Typed
  <2>5. Seen(c)' /\ call'[c].st = "archived" => Seen(c) /\ call[c].st = "archived"
    BY <1>1, <2>3 DEF Continues
  <2>6. Typed'
    BY <1>1, <1>2, <1>3, <2>2, <2>3, <2>4, <2>5, RunsStayTyped
  <2> QED BY <2>2, <2>3, <2>6
<1> HIDE DEF my
<1>6. \/ ~runs[my.run].there /\ End(c) /\ UNCHANGED runs
      \/ /\ runs[my.run].there
         /\ \E t \in Terminal \cup Parked : Take(c, my.run, t) /\ Result(c, t)
  BY DEF Execute, my, Terminal
<1>7. CASE /\ runs[my.run].there
           /\ \E t \in Terminal \cup Parked : Take(c, my.run, t) /\ Result(c, t)
  BY <1>1, <1>2, <1>3, <1>5, <1>7 DEF my
<1> QED BY <1>4, <1>6, <1>7

LEMMA RecordResultEffect ==
    ASSUME Typed, NEW c \in Clients, RecordResult(c)
    PROVE  /\ Typed' /\ Others(c) /\ Rests(c) /\ call[c].pc = "record"
           /\ UNCHANGED <<runs, ops>>
           /\ \/ /\ UNCHANGED <<item, turns, outdated, anomaly>>
                 /\ ~item.there \/ call[c].run # 0
              \/ /\ Reports(c)
                 /\ item'.run = IF call[c].run = 0 THEN item.run ELSE call[c].run
           /\ call[c].run = 0 => call[c].run_st = "failed"
<1>1. call[c].pc = "record" /\ Seen(c) /\ UNCHANGED <<runs, ops, crashes>>
  BY DEF RecordResult, Seen, SeenPcs
<1>2. /\ call[c] \in Long /\ call[c].run \in 0..Len(runs) /\ call[c].run \in Nat
      /\ call[c].run_st # "none" /\ call[c].run_st \in RunStatus
      /\ call[c].run = 0 => call[c].run_st = "failed"
  BY <1>1, SeenIsLong DEF Typed, CallsTyped, Carries, Long
<1>3. CASE /\ ~item.there \/ call[c].run # 0
           /\ End(c) /\ UNCHANGED <<item, turns, links>> /\ Quiet
  <2>1. call' \in [Clients -> Short \cup Long] /\ Others(c) /\ Rests(c)
    BY <1>3, Ends DEF Typed
  <2>2. Counted' /\ UNCHANGED <<outdated, anomaly>>
    BY <1>1, <1>3, FlagTyped DEF Typed, Quiet
  <2>3. Typed'
    BY <1>1, <1>3, <2>1, <2>2, RestStaysTyped
  <2> QED BY <1>1, <1>2, <1>3, <2>1, <2>2, <2>3
<1>4. CASE /\ item.there /\ LinkRun(call[c].run)
           /\ item' = [item EXCEPT !.run = IF call[c].run = 0 THEN @ ELSE call[c].run,
                                   !.status = ItemStatusOf(call[c].run_st)]
           /\ Again(c, "get") /\ Record(c)
  <2> DEFINE st == ItemStatusOf(call[c].run_st)
             k == IF call[c].run = 0 THEN item.run ELSE call[c].run
  <2>0. st \in ItemStatus /\ st # "archived" /\ item \in ItemRow /\ item.run \in Nat
        /\ item.run <= Len(runs)
    BY ItemStatusShown DEF Typed, ItemTyped, ItemRow
  <2>1. k \in Nat /\ k <= Len(runs)
    BY <1>2, <2>0
  <2>2. item' = [item EXCEPT !.run = k, !.status = st]
    BY <1>4, <2>0 DEF ItemRow
  <2> HIDE DEF st, k
  <2>3. item' \in ItemRow /\ item'.there = item.there /\ item'.rev = item.rev
        /\ item'.text = item.text /\ item'.status = st /\ item'.run = k
        /\ item'.shelved = item.shelved
    BY <2>0, <2>1, <2>2 DEF ItemRow
  <2>4. call' \in [Clients -> Short \cup Long] /\ Others(c) /\ Rests(c)
    <3>1. "get" \in AllOps
      BY DEF AllOps
    <3> QED BY <1>4, <3>1, GoesAgain DEF Typed, Rests
  <2>5. TurnsTyped' /\ LinksTyped' /\ Linking(call[c].run)
    BY <1>1, <1>2, <1>4, LinksRun DEF Typed, Linking
  <2>6. ItemTyped' /\ RunsTyped' /\ Len(runs) <= Len(runs') /\ Counted'
    <3>1. Counted'
      BY <1>1, <1>4, FlagTyped DEF Typed
    <3>2. Len(runs') = Len(runs) /\ Len(runs) \in Nat /\ RunsTyped'
      BY <1>1, RunRows DEF Typed, RunsTyped
    <3> QED BY <2>1, <2>3, <3>1, <3>2 DEF ItemTyped
  <2>7. (CanReturn' <=> CanReturn) /\ item'.status # "archived"
    BY <2>0, <2>3 DEF CanReturn
  <2>8. Typed'
    BY <2>4, <2>5, <2>6, <2>7, RestCarries, StaysTyped
  <2>9. Reports(c) /\ item'.run = k
    BY <1>4, <2>0, <2>3, <2>5 DEF Reports, SameItem, st
  <2> QED BY <1>1, <1>2, <2>4, <2>8, <2>9 DEF k
<1> QED BY <1>3, <1>4 DEF RecordResult

LEMMA CancelEffect ==
    ASSUME Typed, NEW c \in Clients, Cancel(c)
    PROVE  /\ Typed' /\ Others(c) /\ call[c].pc = "act" /\ call[c].run \in 1..Len(runs)
           /\ UNCHANGED <<item, turns, links, ops, outdated, anomaly>>
           /\ \/ Rests(c) /\ UNCHANGED runs
              \/ /\ Continues(c) /\ call'[c].pc = "record" /\ call'[c].run = call[c].run
                 /\ \E t \in RunStatus :
                       /\ Changes(call[c].run, t, runs[call[c].run].owner)
                       /\ \/ t = runs[call[c].run].status /\ t \in Terminal
                          \/ t = "cancelled"
                             /\ (runs[call[c].run].status = "pending"
                                 \/ runs[call[c].run].owner = NoClient)
                          \/ t = "cancelling" /\ runs[call[c].run].owner # NoClient
<1> DEFINE my == call[c]
           s == StatusOf(my.run)
           t == IF s \in Terminal THEN s
                ELSE IF s = "pending" \/ runs[my.run].owner = NoClient THEN "cancelled"
                ELSE "cancelling"
           rec == [runs[my.run] EXCEPT !.status = t]
<1>1. /\ my.pc = "act" /\ Seen(c) /\ UNCHANGED <<item, turns, links, ops, crashes>> /\ Quiet
      /\ my.run # 0
  BY DEF Cancel, Seen, SeenPcs
<1>2. /\ my \in Long /\ Len(runs) \in Nat /\ my.run \in 1..Len(runs)
      /\ runs[my.run] \in RunRow
  <2>1. my \in Long /\ my.run \in 0..Len(runs)
    BY <1>1, SeenIsLong DEF Typed
  <2> QED BY <1>1, <2>1, RunRows DEF Typed
<1>3. Counted' /\ UNCHANGED <<outdated, anomaly>>
  BY <1>1, FlagTyped DEF Typed, Quiet
<1>4. CASE End(c) /\ UNCHANGED runs
  <2>1. call' \in [Clients -> Short \cup Long] /\ Others(c) /\ Rests(c)
    BY <1>4, Ends DEF Typed
  <2> QED BY <1>1, <1>2, <1>3, <1>4, <2>1, RestStaysTyped
<1>5. CASE s # "none" /\ runs' = [runs EXCEPT ![my.run].status = t] /\ Result(c, t)
  <2>1. s = runs[my.run].status
    BY <1>5 DEF StatusOf
  <2>2. t \in RunStatus /\ t # "none"
    BY DEF RunStatus, Terminal
  <2>3. \/ t = runs[my.run].status /\ t \in Terminal
        \/ t = "cancelled" /\ (runs[my.run].status = "pending" \/ runs[my.run].owner = NoClient)
        \/ t = "cancelling" /\ runs[my.run].owner # NoClient
    BY <2>1
  <2> HIDE DEF t, s
  <2>4. rec \in RunRow /\ rec.status = t /\ rec.owner = runs[my.run].owner
        /\ rec.key = runs[my.run].key /\ rec.text = runs[my.run].text
        /\ rec.there = runs[my.run].there
    BY <1>2, <2>2, MarkedShape
  <2>5. runs' = [runs EXCEPT ![my.run] = rec]
    BY <1>2, <1>5 DEF Typed, RunsTyped, RunRow
  <2> HIDE DEF rec
  <2>6. /\ runs' \in Seq(RunRow) /\ Len(runs') = Len(runs)
        /\ \A q \in 1..Len(runs) : runs'[q] = IF q = my.run THEN rec ELSE runs[q]
    BY <1>2, <2>4, <2>5, ExceptSeq DEF Typed, RunsTyped
  <2>7. RunsTyped' /\ Changes(my.run, t, runs[my.run].owner)
    BY <1>2, <2>4, <2>6 DEF RunsTyped, Changes, SameRuns
  <2>8. /\ call' \in [Clients -> Short \cup Long] /\ Others(c) /\ Continues(c)
        /\ call'[c].pc = "record" /\ call'[c].op = my.op /\ call'[c].run = my.run
        /\ call'[c].run_st = t
    BY <1>1, <1>5, <2>2, ResultCall DEF Typed
  <2>9. Carries(call[c])'
    BY <1>1, <1>2, <2>2, <2>6, <2>8, ContinuesCarries DEF Typed
  <2>10. Seen(c)' /\ call'[c].st = "archived" => Seen(c) /\ call[c].st = "archived"
    BY <1>1, <2>8 DEF Continues
  <2>11. Typed'
    BY <1>1, <1>2, <1>3, <2>6, <2>7, <2>8, <2>9, <2>10, RunsStayTyped
  <2> QED BY <1>1, <1>2, <1>3, <2>2, <2>3, <2>7, <2>8, <2>11
<1> QED BY <1>4, <1>5 DEF Cancel

LEMMA ArchiveEffect ==
    ASSUME Typed, NEW c \in Clients, Archive(c)
    PROVE  /\ Typed' /\ Others(c) /\ Rests(c) /\ Redirect(c)
           /\ call[c].pc = "act" /\ call[c].st \notin Busy
           /\ SameItem /\ item'.run = item.run
           /\ UNCHANGED <<turns, links, runs, ops>>
           /\ item'.status = "archived" \/ (item' = item /\ ~item.there)
<1>1. /\ call[c].pc = "act" /\ Seen(c) /\ UNCHANGED <<turns, links, runs, ops, crashes>>
      /\ call[c].st \notin Busy /\ call[c].st # "archived" /\ Again(c, "get") /\ Redirect(c)
      /\ "get" \in AllOps
  BY DEF Archive, CanArchive, Seen, SeenPcs, AllOps
<1>2. item \in ItemRow /\ call[c].st \in ItemStatus
  BY <1>1, SeenIsLong DEF Typed, ItemTyped, Long
<1>3. call' \in [Clients -> Short \cup Long] /\ Others(c) /\ Rests(c)
  BY <1>1, GoesAgain DEF Typed, Rests
<1>4. Counted'
  BY <1>1, FlagTyped DEF Typed
<1>5. CASE item' = [item EXCEPT !.status = "archived", !.hidden = TRUE, !.shelved = call[c].st]
  <2>1. /\ item' \in ItemRow /\ SameItem /\ item'.status = "archived"
        /\ item'.run = item.run /\ item'.shelved = call[c].st
    BY <1>2, <1>5, ArchivedShape DEF SameItem
  <2>2. CanReturn'
    BY <1>1, <1>2, <2>1 DEF CanReturn
  <2>3. Typed'
    BY <1>1, <1>3, <1>4, <2>1, <2>2, RestCarries, ItemStaysTyped
  <2> QED BY <1>1, <1>3, <2>1, <2>3
<1>6. CASE item' = item /\ ~item.there
  <2>1. Typed'
    BY <1>1, <1>3, <1>4, <1>6, RestStaysTyped
  <2> QED BY <1>1, <1>3, <1>6, <2>1 DEF SameItem
<1> QED BY <1>5, <1>6 DEF Archive

LEMMA RestoreEffect ==
    ASSUME Typed, NEW c \in Clients, Restore(c)
    PROVE  /\ Typed' /\ Others(c) /\ Rests(c) /\ Redirect(c)
           /\ call[c].pc = "act" /\ call[c].st = "archived"
           /\ SameItem /\ item'.run = item.run
           /\ UNCHANGED <<turns, links, runs, ops>>
           /\ item'.status \notin Busy \cup {"archived"}
<1>1. /\ call[c].pc = "act" /\ Seen(c) /\ UNCHANGED <<turns, links, runs, ops, crashes>>
      /\ call[c].st = "archived" /\ Again(c, "get") /\ Redirect(c) /\ "get" \in AllOps
      /\ item' = [item EXCEPT !.status = item.shelved, !.hidden = FALSE]
  BY DEF Restore, Seen, SeenPcs, AllOps
<1>2. item \in ItemRow /\ item.shelved \in ItemStatus /\ item.shelved \notin Busy \cup {"archived"}
  BY <1>1 DEF Typed, ItemTyped, Shelving, CanReturn
<1>3. call' \in [Clients -> Short \cup Long] /\ Others(c) /\ Rests(c)
  BY <1>1, GoesAgain DEF Typed, Rests
<1>4. Counted'
  BY <1>1, FlagTyped DEF Typed
<1>5. /\ item' \in ItemRow /\ SameItem /\ item'.status = item.shelved
      /\ item'.run = item.run /\ item'.shelved = item.shelved
  BY <1>1, <1>2, StatusShape DEF SameItem
<1>6. (CanReturn' <=> CanReturn) /\ item'.status # "archived"
  BY <1>2, <1>5 DEF CanReturn
<1>7. Typed'
  BY <1>1, <1>3, <1>4, <1>5, <1>6, RestCarries, ItemStaysTyped
<1> QED BY <1>1, <1>2, <1>3, <1>5, <1>7

\* Every run is gone, and nobody owns one.
Forgets ==
    /\ RunsTyped' /\ Len(runs') = Len(runs)
    /\ \A r \in 1..Len(runs) : /\ runs'[r].key = runs[r].key /\ runs'[r].text = runs[r].text
                               /\ ~runs'[r].there /\ runs'[r].owner = NoClient

LEMMA DeleteEffect ==
    ASSUME Typed, NEW c \in Clients, Delete(c)
    PROVE  /\ Typed' /\ Others(c) /\ Rests(c) /\ Redirect(c)
           /\ call[c].pc = "act" /\ call[c].st = "archived"
           /\ ~item'.there /\ item'.rev = item.rev /\ item'.text = item.text
           /\ item'.run = item.run /\ turns' = <<>> /\ Forgets
           /\ UNCHANGED ops
<1>1. /\ call[c].pc = "act" /\ Seen(c) /\ UNCHANGED <<ops, crashes>>
      /\ call[c].st = "archived" /\ End(c) /\ Redirect(c)
      /\ item' = [item EXCEPT !.there = FALSE] /\ turns' = <<>> /\ links' = <<>>
      /\ runs' = [r \in DOMAIN runs |-> [runs[r] EXCEPT !.there = FALSE, !.owner = NoClient]]
  BY DEF Delete, Seen, SeenPcs
<1>2. item \in ItemRow /\ item.run <= Len(runs) /\ DOMAIN runs = 1..Len(runs) /\ Len(runs) \in Nat
      /\ \A r \in 1..Len(runs) : runs[r] \in RunRow
  BY RunRows DEF Typed, ItemTyped
<1>3. call' \in [Clients -> Short \cup Long] /\ Others(c) /\ Rests(c)
  BY <1>1, Ends DEF Typed
<1>4. Counted'
  BY <1>1, FlagTyped DEF Typed
<1>5. /\ item' \in ItemRow /\ ~item'.there /\ item'.rev = item.rev /\ item'.text = item.text
      /\ item'.status = item.status /\ item'.run = item.run /\ item'.shelved = item.shelved
  BY <1>1, <1>2, DeletedShape
<1> DEFINE new(r) == [runs[r] EXCEPT !.there = FALSE, !.owner = NoClient]
<1>6. ASSUME NEW r \in 1..Len(runs)
      PROVE  /\ new(r) \in RunRow /\ new(r).owner = NoClient /\ ~new(r).there
             /\ new(r).key = runs[r].key /\ new(r).text = runs[r].text
  BY <1>2, ForgottenShape
<1> HIDE DEF new
<1>7. runs' = [r \in 1..Len(runs) |-> new(r)]
  BY <1>1, <1>2 DEF new
<1>8. runs' \in [1..Len(runs) -> RunRow]
  BY <1>6, <1>7
<1>9. runs' \in Seq(RunRow) /\ Len(runs') = Len(runs)
  BY <1>2, <1>8
<1>10. \A r \in 1..Len(runs) : runs'[r] = new(r)
  BY <1>7
<1>11. Forgets
  BY <1>6, <1>9, <1>10 DEF Forgets, RunsTyped
<1>12. TurnsTyped' /\ LinksTyped'
  <2>1. /\ turns' \in Seq(TurnRow) /\ Len(turns') = 0
        /\ links' \in Seq(Nat \ {0}) /\ Len(links') = 0
    BY <1>1, EmptySeq
  <2>2. 1..0 = {}
    OBVIOUS
  <2>3. TurnsTyped'
    BY <2>1, <2>2 DEF TurnsTyped
  <2>4. LinksTyped'
    BY <2>1, <2>2 DEF LinksTyped
  <2> QED BY <2>3, <2>4
<1>13. ItemTyped'
  BY <1>2, <1>5, <1>9 DEF ItemTyped
<1>14. (CanReturn' <=> CanReturn) /\ (item'.status = "archived" => CanReturn')
  BY <1>5 DEF CanReturn, Typed, Shelving
<1>15. Len(runs) <= Len(runs') /\ RunsTyped'
  BY <1>2, <1>9 DEF RunsTyped
<1>16. Typed'
  BY <1>3, <1>4, <1>12, <1>13, <1>14, <1>15, RestCarries, StaysTyped
<1> QED BY <1>1, <1>3, <1>5, <1>11, <1>16

\* The lease of the client that died lapses.
Lapses(c) ==
    \A r \in 1..Len(runs) : /\ runs'[r].status = runs[r].status
                            /\ runs'[r].owner = IF runs[r].owner = c THEN NoClient ELSE runs[r].owner

LEMMA CrashEffect ==
    ASSUME Typed, NEW c \in Clients, Crash(c)
    PROVE  /\ Typed' /\ Others(c) /\ Rests(c) /\ SameRuns /\ Lapses(c)
           /\ call[c].pc # "idle"
           /\ UNCHANGED <<item, turns, links, ops, outdated>>
           /\ anomaly \subseteq anomaly'
           /\ "overtaken" \in anomaly' => "overtaken" \in anomaly
           /\ call[c].pc = "create" \/ (call[c].pc = "record" /\ call[c].run = 0) =>
                 anomaly' # {}
<1>1. /\ UNCHANGED <<item, turns, links, ops, outdated>> /\ End(c) /\ call[c].pc # "idle"
      /\ crashes < MaxCrashes /\ crashes' = crashes + 1
      /\ anomaly' = anomaly \cup (IF call[c].pc = "create" \/ (call[c].pc = "record" /\ call[c].run = 0)
                                  THEN {"crash before run"} ELSE {})
      /\ runs' = [r \in DOMAIN runs |->
                    IF runs[r].owner = c THEN [runs[r] EXCEPT !.owner = NoClient] ELSE runs[r]]
  BY DEF Crash
<1>2. DOMAIN runs = 1..Len(runs) /\ Len(runs) \in Nat
      /\ \A r \in 1..Len(runs) : runs[r] \in RunRow
  BY RunRows DEF Typed
<1>3. call' \in [Clients -> Short \cup Long] /\ Others(c) /\ Rests(c)
  BY <1>1, Ends DEF Typed
<1>4. Counted'
  <2>1. ops \in 0..MaxOps /\ crashes \in 0..MaxCrashes
    BY DEF Typed, Counted
  <2>3. ops' \in 0..MaxOps
    BY <1>1, <2>1
  <2>4. crashes' \in 0..MaxCrashes
    <3>1. crashes < MaxCrashes /\ crashes' = crashes + 1
      BY <1>1
    <3>2. MaxCrashes \in Nat
      BY BoundsAssumption
    <3> QED BY <2>1, <3>1, <3>2
  <2>2. /\ anomaly' \subseteq {"overtaken", "archived run", "crash before run"}
        /\ outdated' \subseteq Clients
    BY <1>1 DEF Typed, Counted
  <2> QED BY <2>2, <2>3, <2>4 DEF Counted
<1> DEFINE new(r) == IF runs[r].owner = c THEN [runs[r] EXCEPT !.owner = NoClient] ELSE runs[r]
<1>5. ASSUME NEW r \in 1..Len(runs)
      PROVE  /\ new(r) \in RunRow /\ new(r).status = runs[r].status
             /\ new(r).owner = IF runs[r].owner = c THEN NoClient ELSE runs[r].owner
             /\ new(r).key = runs[r].key /\ new(r).text = runs[r].text
             /\ new(r).there = runs[r].there
  <2>1. CASE runs[r].owner = c
    BY <1>2, <2>1, LapsedShape
  <2>2. CASE runs[r].owner # c
    BY <1>2, <2>2
  <2> QED BY <2>1, <2>2
<1> HIDE DEF new
<1>6. runs' = [r \in 1..Len(runs) |-> new(r)]
  BY <1>1, <1>2 DEF new
<1>7. runs' \in [1..Len(runs) -> RunRow]
  BY <1>5, <1>6
<1>8. runs' \in Seq(RunRow) /\ Len(runs') = Len(runs)
  BY <1>2, <1>7
<1>9. \A r \in 1..Len(runs) : runs'[r] = new(r)
  BY <1>6
<1>10. SameRuns /\ Lapses(c)
  BY <1>5, <1>8, <1>9 DEF SameRuns, Lapses
<1>11. RunsTyped' /\ Len(runs) <= Len(runs')
  BY <1>2, <1>8 DEF RunsTyped
<1>12. Typed'
  BY <1>1, <1>3, <1>4, <1>11, RestCarries, RunsStayTyped
<1> QED BY <1>1, <1>3, <1>10, <1>12

-----------------------------------------------------------------------------
(* The rows: runs, their owners and their keys.                              *)

Rows == Untouched /\ Together /\ Owners /\ Executes /\ OneRunPerRevision

\* Rows are kept by a step that changes no run another client executes.
LEMMA RowsKept ==
    ASSUME Typed, Rows, RunsTyped', NEW c \in Clients, Others(c), item'.there = item.there,
           SameRuns, SameOwners, ops' # 0,
           \A r \in 1..Len(runs) : runs[r].owner # NoClient => runs'[r].status \in Busy,
           call[c].pc # "execute", call'[c].pc # "execute"
    PROVE  Rows'
<1>1. DOMAIN runs = 1..Len(runs) /\ DOMAIN runs' = 1..Len(runs) /\ Len(runs) \in Nat
  BY RunRows DEF Typed, RunsTyped, SameRuns
<1>2. Together'
  BY <1>1 DEF Rows, Together, SameRuns
<1>3. OneRunPerRevision'
  BY <1>1 DEF Rows, OneRunPerRevision, SameRuns
<1>4. ASSUME NEW r \in 1..Len(runs), runs'[r].owner # NoClient
      PROVE  /\ call'[runs'[r].owner].pc = "execute" /\ call'[runs'[r].owner].run = r
             /\ runs'[r].there /\ runs'[r].status \in Busy
  <2>1. runs[r].owner # NoClient /\ runs'[r].owner = runs[r].owner /\ runs[r].owner \in Clients
    BY <1>4, RunRows DEF SameOwners, Typed, RunRow
  <2>2. /\ call[runs[r].owner].pc = "execute" /\ call[runs[r].owner].run = r /\ runs[r].there
    BY <1>1, <2>1 DEF Rows, Owners
  <2>3. call'[runs[r].owner] = call[runs[r].owner]
    BY <2>1, <2>2 DEF Others
  <2> QED BY <2>1, <2>2, <2>3 DEF SameRuns
<1>5. Owners'
  BY <1>1, <1>4 DEF Owners
<1>6. ASSUME NEW d \in Clients, call'[d].pc = "execute", item'.there
      PROVE  runs'[call'[d].run].owner = d
  <2>1. call'[d] = call[d] /\ runs[call[d].run].owner = d
    BY <1>6 DEF Others, Rows, Executes
  <2>2. call[d].run \in 1..Len(runs)
    BY <1>6, <2>1, SeenIsLong DEF Typed, CallsTyped, Carries, Seen, SeenPcs
  <2> QED BY <2>1, <2>2 DEF SameOwners
<1>7. Executes'
  BY <1>6 DEF Executes
<1> QED BY <1>2, <1>3, <1>5, <1>7 DEF Rows, Untouched

\* One run changes hands: the others keep what they own.
LEMMA RowsChanged ==
    ASSUME Typed, Rows, RunsTyped', NEW c \in Clients, Others(c), item'.there = item.there,
           NEW r \in 1..Len(runs), NEW s, NEW o, Changes(r, s, o), ops' # 0,
           runs[r].owner # NoClient => runs[r].owner = c,
           call[c].pc = "execute" => call[c].run = r,
           \/ o = NoClient /\ call'[c].pc # "execute"
           \/ o = c /\ s \in Busy /\ runs[r].there /\ call'[c].pc = "execute" /\ call'[c].run = r
    PROVE  Rows'
<1>1. DOMAIN runs = 1..Len(runs) /\ DOMAIN runs' = 1..Len(runs) /\ Len(runs) \in Nat
  BY RunRows DEF Typed, RunsTyped, Changes, SameRuns
<1>2. Together'
  BY <1>1 DEF Rows, Together, Changes, SameRuns
<1>3. OneRunPerRevision'
  BY <1>1 DEF Rows, OneRunPerRevision, Changes, SameRuns
<1>4. ASSUME NEW q \in 1..Len(runs), runs'[q].owner # NoClient
      PROVE  /\ call'[runs'[q].owner].pc = "execute" /\ call'[runs'[q].owner].run = q
             /\ runs'[q].there /\ runs'[q].status \in Busy
  <2>1. CASE q = r
    BY <1>4, <2>1 DEF Changes, SameRuns
  <2>2. CASE q # r
    <3>1. runs'[q] = runs[q] /\ runs[q].owner \in Clients
      BY <1>4, <2>2, RunRows DEF Changes, Typed, RunRow
    <3>2. /\ call[runs[q].owner].pc = "execute" /\ call[runs[q].owner].run = q /\ runs[q].there
          /\ runs[q].status \in Busy
      BY <1>1, <1>4, <3>1 DEF Rows, Owners
    <3>3. runs[q].owner # c
      BY <2>2, <3>2
    <3> QED BY <3>1, <3>2, <3>3 DEF Others
  <2> QED BY <2>1, <2>2
<1>5. Owners'
  BY <1>1, <1>4 DEF Owners
<1>6. ASSUME NEW d \in Clients, call'[d].pc = "execute", item'.there
      PROVE  runs'[call'[d].run].owner = d
  <2>1. CASE d = c
    BY <1>6, <2>1 DEF Changes
  <2>2. CASE d # c
    <3>1. call'[d] = call[d] /\ runs[call[d].run].owner = d
      BY <1>6, <2>2 DEF Others, Rows, Executes
    <3>2. call[d].run \in 1..Len(runs)
      BY <1>6, <3>1, SeenIsLong DEF Typed, CallsTyped, Carries, Seen, SeenPcs
    <3>3. call[d].run # r
      BY <2>2, <3>1, NoClientAssumption
    <3> QED BY <3>1, <3>2, <3>3 DEF Changes
  <2> QED BY <2>1, <2>2
<1>7. Executes'
  BY <1>6 DEF Executes
<1> QED BY <1>2, <1>3, <1>5, <1>7 DEF Rows, Untouched

\* A run is added for a revision that had none.
LEMMA RowsAdded ==
    ASSUME Typed, Rows, NEW c \in Clients, Others(c), UNCHANGED item, item.there, ops' # 0,
           KnownRun(call[c].rev) = 0, Adds(c),
           call[c].pc # "execute", call'[c].pc # "execute"
    PROVE  Rows'
<1> DEFINE k == Len(runs) + 1
<1>1. /\ DOMAIN runs = 1..Len(runs) /\ DOMAIN runs' = 1..k /\ Len(runs) \in Nat
      /\ \A r \in 1..k : r # k => r \in 1..Len(runs) /\ runs'[r] = runs[r]
      /\ runs'[k].there /\ runs'[k].key = call[c].rev /\ runs'[k].owner = NoClient
  BY RunRows DEF Typed, RunsTyped, Adds
<1>2. \A r \in 1..Len(runs) : ~(runs[r].there /\ runs[r].key = call[c].rev)
  BY KnownRunIsOne DEF Typed
<1> HIDE DEF k
<1>3. Together'
  BY <1>1 DEF Rows, Together
<1>4. OneRunPerRevision'
  BY <1>1, <1>2 DEF Rows, OneRunPerRevision
<1>5. ASSUME NEW q \in 1..k, runs'[q].owner # NoClient
      PROVE  /\ call'[runs'[q].owner].pc = "execute" /\ call'[runs'[q].owner].run = q
             /\ runs'[q].there /\ runs'[q].status \in Busy
  <2>1. q \in 1..Len(runs) /\ runs'[q] = runs[q]
    BY <1>1, <1>5
  <2>2. runs[q].owner \in Clients
    BY <1>5, <2>1, RunRows DEF Typed, RunRow
  <2>3. /\ call[runs[q].owner].pc = "execute" /\ call[runs[q].owner].run = q /\ runs[q].there
        /\ runs[q].status \in Busy
    BY <1>1, <1>5, <2>1 DEF Rows, Owners
  <2> QED BY <2>1, <2>2, <2>3 DEF Others
<1>6. Owners'
  BY <1>1, <1>5 DEF Owners
<1>7. ASSUME NEW d \in Clients, call'[d].pc = "execute"
      PROVE  runs'[call'[d].run].owner = d
  <2>1. call'[d] = call[d] /\ runs[call[d].run].owner = d
    BY <1>7 DEF Others, Rows, Executes
  <2>2. call[d].run \in 1..Len(runs)
    BY <1>7, <2>1, SeenIsLong DEF Typed, CallsTyped, Carries, Seen, SeenPcs
  <2> QED BY <2>1, <2>2 DEF Adds
<1>8. Executes'
  BY <1>7 DEF Executes
<1> QED BY <1>3, <1>4, <1>6, <1>8 DEF Rows, Untouched

LEMMA Working ==
    ASSUME Untouched, NEW c \in Clients, call[c].pc # "idle", UNCHANGED ops
    PROVE  ops' # 0
  BY DEF Untouched, Idle

\* A step that leaves the runs alone.
LEMMA RowsAlone ==
    ASSUME Typed, Rows, NEW c \in Clients, Others(c), item'.there = item.there,
           UNCHANGED runs, ops' # 0, call[c].pc # "execute", call'[c].pc # "execute"
    PROVE  Rows'
<1>1. RunsTyped' /\ SameRuns /\ SameOwners
  BY DEF Typed, RunsTyped, SameRuns, SameOwners
<1>2. \A r \in 1..Len(runs) : runs[r].owner # NoClient => runs'[r].status \in Busy
  BY RunRows DEF Typed, Rows, Owners
<1> QED BY <1>1, <1>2, RowsKept

LEMMA RowsReleased ==
    ASSUME Typed, Rows, RunsTyped', NEW c \in Clients, Others(c), item'.there = item.there,
           ops' # 0, NEW r \in 1..Len(runs), NEW s, Changes(r, s, NoClient),
           runs[r].owner \in {NoClient, c}, call[c].pc = "execute" => call[c].run = r,
           call'[c].pc = "record"
    PROVE  Rows'
<1>1. runs[r].owner # NoClient => runs[r].owner = c
  OBVIOUS
<1>2. call'[c].pc # "execute"
  OBVIOUS
<1>3. \/ NoClient = NoClient /\ call'[c].pc # "execute"
      \/ NoClient = c /\ s \in Busy /\ runs[r].there /\ call'[c].pc = "execute" /\ call'[c].run = r
  BY <1>2
<1> QED BY <1>1, <1>3, RowsChanged, Zenon

LEMMA RowsStep ==
    ASSUME Typed, Rows, NEW c \in Clients, Step(c)
    PROVE  Rows'
<1>1. CASE SettleAll(c)
  <2>1. /\ RunsTyped' /\ Others(c) /\ Rests(c) /\ SameRuns /\ SameOwners /\ item' = item
        /\ call[c].pc = "read" /\ UNCHANGED ops
        /\ \A r \in 1..Len(runs) : runs[r].owner # NoClient => runs'[r].status = runs[r].status
    BY <1>1, SettleAllEffect DEF Typed
  <2>2. \A r \in 1..Len(runs) : runs[r].owner # NoClient => runs'[r].status \in Busy
    BY <2>1, RunRows DEF Typed, Rows, Owners
  <2>3. ops' # 0
    BY <2>1, Working DEF Rows
  <2> QED BY <2>1, <2>2, <2>3, RowsKept DEF Rests
<1>2. CASE Read(c)
  <2>1. /\ Others(c) /\ UNCHANGED <<item, runs, ops>> /\ call[c].pc = "read"
        /\ call'[c].pc # "execute"
    BY <1>2, ReadEffect DEF Remembers
  <2> QED BY <2>1, RowsAlone, Working DEF Rows
<1>3. CASE Sync(c)
  <2>1. /\ Others(c) /\ UNCHANGED <<runs, ops>> /\ call[c].pc = "sync"
        /\ item'.there = item.there /\ call'[c].pc # "execute"
    BY <1>3, SyncEffect DEF Reports, SameItem, Rests
  <2> QED BY <2>1, RowsAlone, Working DEF Rows
<1>4. CASE Refused(c)
  <2>1. /\ Others(c) /\ UNCHANGED <<item, runs, ops>> /\ call[c].pc = "act"
        /\ call'[c].pc # "execute"
    BY <1>4, RefusedEffect DEF Rests
  <2> QED BY <2>1, RowsAlone, Working DEF Rows
<1>5. CASE Continue(c)
  <2>1. /\ Others(c) /\ UNCHANGED <<runs, ops>> /\ call[c].pc = "act"
        /\ item'.there = item.there /\ call'[c].pc # "execute"
    BY <1>5, ContinueEffect DEF Rests
  <2> QED BY <2>1, RowsAlone, Working DEF Rows
<1>6. CASE Update(c)
  <2>1. /\ Others(c) /\ UNCHANGED <<runs, ops>> /\ call[c].pc = "act"
        /\ item'.there = item.there /\ call'[c].pc # "execute"
    BY <1>6, UpdateEffect DEF Rests
  <2> QED BY <2>1, RowsAlone, Working DEF Rows
<1>7. CASE Start(c)
  <2>1. /\ Others(c) /\ UNCHANGED <<item, runs, ops>> /\ call[c].pc = "act"
        /\ call'[c].pc # "execute"
    BY <1>7, StartEffect DEF Rests
  <2> QED BY <2>1, RowsAlone, Working DEF Rows
<1>8. CASE Restart(c)
  <2>1. /\ Others(c) /\ UNCHANGED <<runs, ops>> /\ call[c].pc = "act"
        /\ item'.there = item.there /\ call'[c].pc # "execute"
    BY <1>8, RestartEffect DEF Rests
  <2> QED BY <2>1, RowsAlone, Working DEF Rows
<1>9. CASE MarkStarted(c)
  <2>1. /\ Others(c) /\ UNCHANGED <<runs, ops>> /\ call[c].pc = "act"
        /\ item'.there = item.there /\ call'[c].pc # "execute"
    BY <1>9, MarkStartedEffect DEF Rests, SameItem
  <2> QED BY <2>1, RowsAlone, Working DEF Rows
<1>10. CASE CreateRun(c)
  <2>1. /\ Others(c) /\ UNCHANGED <<item, ops>> /\ call[c].pc = "create"
        /\ call'[c].pc # "execute"
        /\ \/ UNCHANGED runs
           \/ KnownRun(call[c].rev) = 0 /\ item.there /\ Adds(c)
    BY <1>10, CreateRunEffect DEF Rests
  <2>2. ops' # 0
    BY <2>1, Working DEF Rows
  <2> QED BY <2>1, <2>2, RowsAlone, RowsAdded
<1>11. CASE Lease(c)
  <2> DEFINE r == call[c].run
  <2>1. /\ RunsTyped' /\ Others(c) /\ UNCHANGED <<item, ops>> /\ call[c].pc = "lease"
        /\ r \in 1..Len(runs)
    BY <1>11, LeaseEffect DEF Typed
  <2>2. ops' # 0
    BY <2>1, Working DEF Rows
  <2>3. \/ call'[c].pc # "execute" /\ UNCHANGED runs
        \/ /\ call'[c].pc = "record" /\ runs[r].status \in Parked \cup {"cancelling"}
           /\ runs[r].status = "cancelling" => runs[r].owner = NoClient
           /\ \E s \in RunStatus : Changes(r, s, NoClient)
        \/ /\ call'[c].pc = "execute" /\ call'[c].run = r /\ runs[r].there
           /\ runs[r].status # "awaiting" => runs[r].owner = NoClient
           /\ Changes(r, "running", c)
    <3>1. \/ Rests(c) /\ UNCHANGED runs
          \/ call'[c].pc = "record" /\ UNCHANGED runs
          \/ /\ call'[c].pc = "record" /\ runs[r].status = "cancelling"
             /\ runs[r].owner = NoClient /\ Changes(r, "cancelled", NoClient)
          \/ /\ call'[c].pc = "record" /\ runs[r].status \in Parked
             /\ \E t \in {"failed", "approved"} : Changes(r, t, NoClient)
          \/ /\ call'[c].pc = "execute" /\ call'[c].run = r /\ runs[r].there
             /\ runs[r].status # "awaiting" => runs[r].owner = NoClient
             /\ Changes(r, "running", c)
      BY <1>11, LeaseEffect
    <3>2. "cancelled" \in RunStatus /\ {"failed", "approved"} \subseteq RunStatus
      BY DEF RunStatus, Terminal
    <3>3. "cancelling" \notin Parked
      BY DEF Parked
    <3> HIDE DEF r
    <3> QED BY <3>1, <3>2, <3>3 DEF Rests
  <2>4. runs[r].status \in Parked => runs[r].owner = NoClient
    BY <2>1, RunRows DEF Typed, Rows, Owners, Busy, Parked
  <2> HIDE DEF r
  <2>5. CASE call'[c].pc # "execute" /\ UNCHANGED runs
    BY <2>1, <2>2, <2>5, RowsAlone
  <2>6. CASE /\ call'[c].pc = "record" /\ runs[r].status \in Parked \cup {"cancelling"}
             /\ runs[r].status = "cancelling" => runs[r].owner = NoClient
             /\ \E s \in RunStatus : Changes(r, s, NoClient)
    <3>1. PICK s \in RunStatus : Changes(r, s, NoClient)
      BY <2>6
    <3>2. runs[r].owner = NoClient
      BY <2>4, <2>6
    <3>3. /\ item'.there = item.there /\ runs[r].owner \in {NoClient, c}
          /\ call[c].pc # "execute" /\ call'[c].pc = "record"
      BY <2>1, <2>6, <3>2
    <3> QED BY <2>1, <2>2, <3>1, <3>3, RowsReleased
  <2>7. CASE /\ call'[c].pc = "execute" /\ call'[c].run = r /\ runs[r].there
             /\ runs[r].status # "awaiting" => runs[r].owner = NoClient
             /\ Changes(r, "running", c)
    <3>1. runs[r].owner = NoClient /\ "running" \in Busy
      BY <2>4, <2>7 DEF Parked, Busy
    <3> QED BY <2>1, <2>2, <2>7, <3>1, RowsChanged
  <2> QED BY <2>3, <2>5, <2>6, <2>7
<1>12. CASE Execute(c)
  <2> DEFINE r == call[c].run
  <2>1. /\ RunsTyped' /\ Others(c) /\ UNCHANGED <<item, ops>> /\ call[c].pc = "execute"
        /\ r \in 1..Len(runs)
    BY <1>12, ExecuteEffect DEF Typed
  <2>2. ops' # 0
    BY <2>1, Working DEF Rows
  <2>3. \/ call'[c].pc # "execute" /\ ~runs[r].there /\ UNCHANGED runs
        \/ /\ call'[c].pc = "record" /\ runs[r].there
           /\ \E s \in Terminal \cup Parked : Changes(r, s, NoClient)
    BY <1>12, ExecuteEffect DEF Rests
  <2>4. \A q \in 1..Len(runs) : runs[q].owner = c => q = r /\ runs[r].there
    BY <2>1, RunRows, NoClientAssumption DEF Typed, Rows, Owners
  <2>5. runs[r].there => runs[r].owner = c
    BY <2>1, RunRows DEF Typed, Rows, Together, Executes
  <2> HIDE DEF r
  \* The run it executed is gone: it owns none.
  <2>6. CASE call'[c].pc # "execute" /\ ~runs[r].there /\ UNCHANGED runs
    <3>1. DOMAIN runs = 1..Len(runs) /\ UNCHANGED runs
      BY <2>6, RunRows DEF Typed
    <3>2. Together' /\ OneRunPerRevision'
      BY <2>1, <3>1 DEF Rows, Together, OneRunPerRevision
    <3>3. Owners'
      <4>1. ASSUME NEW q \in 1..Len(runs), runs[q].owner # NoClient
            PROVE  call'[runs[q].owner] = call[runs[q].owner]
        <5>1. runs[q].owner \in Clients /\ runs[q].owner # c
          BY <2>4, <2>6, <4>1, RunRows DEF Typed, RunRow
        <5> QED BY <2>1, <5>1 DEF Others
      <4> QED BY <3>1, <4>1 DEF Rows, Owners
    <3>4. Executes'
      <4>1. ASSUME NEW d \in Clients, call'[d].pc = "execute" PROVE call'[d] = call[d]
        BY <2>1, <2>6, <4>1 DEF Others
      <4> QED BY <2>1, <3>1, <4>1 DEF Rows, Executes
    <3> QED BY <2>2, <3>2, <3>3, <3>4 DEF Rows, Untouched
  <2>7. CASE /\ call'[c].pc = "record" /\ runs[r].there
             /\ \E s \in Terminal \cup Parked : Changes(r, s, NoClient)
    <3>1. PICK s \in Terminal \cup Parked : Changes(r, s, NoClient)
      BY <2>7
    <3>2. call[c].run = r
      BY DEF r
    <3>3. item'.there = item.there /\ runs[r].owner \in {NoClient, c}
      BY <2>1, <2>5, <2>7
    <3> QED BY <2>1, <2>2, <2>7, <3>1, <3>2, <3>3, RowsReleased
  <2> QED BY <2>3, <2>6, <2>7
<1>13. CASE RecordResult(c)
  <2>1. /\ Others(c) /\ UNCHANGED <<runs, ops>> /\ call[c].pc = "record"
        /\ item'.there = item.there /\ call'[c].pc # "execute"
    BY <1>13, RecordResultEffect DEF Rests, Reports, SameItem
  <2> QED BY <2>1, RowsAlone, Working DEF Rows
<1>14. CASE Settle(c)
  <2>1. /\ Others(c) /\ UNCHANGED <<item, runs, ops>> /\ call[c].pc = "act"
        /\ call'[c].pc # "execute"
    BY <1>14, SettleEffect DEF Rests
  <2> QED BY <2>1, RowsAlone, Working DEF Rows
<1>15. CASE Reconcile(c)
  <2>1. /\ Others(c) /\ UNCHANGED <<item, runs, ops>> /\ call[c].pc = "act"
        /\ call'[c].pc # "execute"
    BY <1>15, ReconcileEffect
  <2> QED BY <2>1, RowsAlone, Working DEF Rows
<1>16. CASE Cancel(c)
  <2> DEFINE r == call[c].run
  <2>1. /\ RunsTyped' /\ Others(c) /\ UNCHANGED <<item, ops>> /\ call[c].pc = "act"
        /\ r \in 1..Len(runs) /\ call'[c].pc # "execute"
        /\ \/ UNCHANGED runs
           \/ \E t \in RunStatus :
                 /\ Changes(r, t, runs[r].owner)
                 /\ \/ t = runs[r].status /\ t \in Terminal
                    \/ runs[r].status = "pending" \/ runs[r].owner = NoClient
                    \/ t = "cancelling"
    BY <1>16, CancelEffect DEF Typed, Rests
  <2>2. ops' # 0
    BY <2>1, Working DEF Rows
  <2>3. CASE UNCHANGED runs
    BY <2>1, <2>2, <2>3, RowsAlone
  <2>4. ASSUME NEW t \in RunStatus, Changes(r, t, runs[r].owner),
               \/ t = runs[r].status /\ t \in Terminal
               \/ runs[r].status = "pending" \/ runs[r].owner = NoClient
               \/ t = "cancelling"
        PROVE  Rows'
    <3>1. SameRuns /\ SameOwners
      BY <2>1, <2>4 DEF Changes, SameOwners
    <3>2. ASSUME NEW q \in 1..Len(runs), runs[q].owner # NoClient PROVE runs'[q].status \in Busy
      <4>1. runs[q].status \in Busy
        BY <3>2, RunRows DEF Typed, Rows, Owners
      <4>2. CASE q = r
        BY <2>4, <3>2, <4>1, <4>2 DEF Changes, Busy, Terminal
      <4>3. CASE q # r
        BY <2>4, <4>1, <4>3 DEF Changes
      <4> QED BY <4>2, <4>3
    <3> QED BY <2>1, <2>2, <3>1, <3>2, RowsKept
  <2> QED BY <2>1, <2>3, <2>4
<1>17. CASE Archive(c)
  <2>1. /\ Others(c) /\ UNCHANGED <<runs, ops>> /\ call[c].pc = "act"
        /\ item'.there = item.there /\ call'[c].pc # "execute"
    BY <1>17, ArchiveEffect DEF Rests, SameItem
  <2> QED BY <2>1, RowsAlone, Working DEF Rows
<1>18. CASE Restore(c)
  <2>1. /\ Others(c) /\ UNCHANGED <<runs, ops>> /\ call[c].pc = "act"
        /\ item'.there = item.there /\ call'[c].pc # "execute"
    BY <1>18, RestoreEffect DEF Rests, SameItem
  <2> QED BY <2>1, RowsAlone, Working DEF Rows
<1>19. CASE Delete(c)
  <2>1. Forgets /\ ~item'.there /\ call[c].pc = "act" /\ UNCHANGED ops
    BY <1>19, DeleteEffect
  <2>2. DOMAIN runs' = 1..Len(runs)
    BY <2>1 DEF Forgets, RunsTyped
  <2>3. ops' # 0
    BY <2>1, Working DEF Rows
  <2>4. \A q \in 1..Len(runs) : ~runs'[q].there /\ runs'[q].owner = NoClient
    BY <2>1 DEF Forgets
  <2>5. Owners' /\ OneRunPerRevision'
    BY <2>1, <2>2, <2>4 DEF Owners, OneRunPerRevision
  <2>7. Together'
    <3>1. Typed' /\ Len(runs') = Len(runs)
      BY <1>19, DeleteEffect DEF Forgets
    <3>2. item'.there = FALSE
      BY <2>1, <3>1 DEF Typed, ItemTyped, ItemRow
    <3>3. \A q \in 1..Len(runs) : runs'[q].there = FALSE
      <4>1. \A q \in 1..Len(runs) : runs'[q] \in RunRow
        BY <3>1 DEF Typed, RunsTyped
      <4> QED BY <2>4, <4>1 DEF RunRow
    <3> QED BY <2>2, <3>2, <3>3 DEF Together
  <2>6. Executes'
    BY <2>1 DEF Executes
  <2> QED BY <2>3, <2>5, <2>6, <2>7 DEF Rows, Untouched
<1> QED BY <1>1, <1>2, <1>3, <1>4, <1>5, <1>6, <1>7, <1>8, <1>9, <1>10, <1>11, <1>12, <1>13,
           <1>14, <1>15, <1>16, <1>17, <1>18, <1>19 DEF Step

LEMMA RowsCrash ==
    ASSUME Typed, Rows, NEW c \in Clients, Crash(c)
    PROVE  Rows'
<1>1. /\ RunsTyped' /\ Others(c) /\ Rests(c) /\ SameRuns /\ Lapses(c)
      /\ call[c].pc # "idle" /\ UNCHANGED <<item, ops>>
  BY CrashEffect DEF Typed
<1>2. DOMAIN runs = 1..Len(runs) /\ DOMAIN runs' = 1..Len(runs)
  BY <1>1, RunRows DEF Typed, RunsTyped, SameRuns
<1>3. Together' /\ OneRunPerRevision'
  BY <1>1, <1>2 DEF Rows, Together, OneRunPerRevision, SameRuns
<1>4. ASSUME NEW q \in 1..Len(runs), runs'[q].owner # NoClient
      PROVE  /\ call'[runs'[q].owner].pc = "execute" /\ call'[runs'[q].owner].run = q
             /\ runs'[q].there /\ runs'[q].status \in Busy
  <2>1. runs'[q].owner = runs[q].owner /\ runs[q].owner # c /\ runs[q].owner \in Clients
    BY <1>1, <1>4, RunRows DEF Lapses, Typed, RunRow
  <2>2. call'[runs[q].owner] = call[runs[q].owner]
    BY <1>1, <2>1 DEF Others
  <2> QED BY <1>1, <1>2, <1>4, <2>1, <2>2 DEF Rows, Owners, SameRuns, Lapses
<1>5. Owners'
  BY <1>2, <1>4 DEF Owners
<1>6. ASSUME NEW d \in Clients, call'[d].pc = "execute", item'.there
      PROVE  runs'[call'[d].run].owner = d
  <2>1. d # c /\ call'[d] = call[d] /\ runs[call[d].run].owner = d
    BY <1>1, <1>6 DEF Rests, Others, Rows, Executes
  <2>2. call[d].run \in 1..Len(runs)
    BY <1>6, <2>1, SeenIsLong DEF Typed, CallsTyped, Carries, Seen, SeenPcs
  <2> QED BY <1>1, <2>1, <2>2 DEF Lapses
<1>7. Executes'
  BY <1>6 DEF Executes
<1>8. ops' # 0
  BY <1>1, Working DEF Rows
<1> QED BY <1>3, <1>5, <1>7, <1>8 DEF Rows, Untouched

LEMMA RowsCreate ==
    ASSUME Typed, Rows, NEW c \in Clients, Create(c)
    PROVE  Rows'
<1>1. UNCHANGED <<runs, call>> /\ runs = <<>> /\ ops = 0 /\ ops' # 0
  BY CreateEffect DEF Rows, Create
<1>2. DOMAIN runs = {} /\ DOMAIN runs' = {}
  BY <1>1
<1>3. \A d \in Clients : call'[d].pc = "idle"
  BY <1>1 DEF Rows, Untouched, Idle
<1> QED BY <1>1, <1>2, <1>3 DEF Rows, Untouched, Together, Owners, Executes, OneRunPerRevision

LEMMA RowsBegin ==
    ASSUME Typed, Rows, NEW c \in Clients, NEW op \in Operations, Begin(c, op)
    PROVE  Rows'
<1>1. Others(c) /\ Rests(c) /\ ops' # 0 /\ UNCHANGED <<item, runs>>
  BY BeginEffect
<1>2. call[c].pc = "idle" /\ call'[c].pc # "execute"
  BY <1>1 DEF Begin, Rests
<1> QED BY <1>1, <1>2, RowsAlone

-----------------------------------------------------------------------------
(* What the clients know.                                                    *)

\* Runs keep their keys and texts, and others may follow them.
SameTexts ==
    /\ Len(runs) <= Len(runs')
    /\ \A r \in 1..Len(runs) : runs'[r].key = runs[r].key /\ runs'[r].text = runs[r].text

LEMMA TextsStay ==
    ASSUME Typed, SameRuns \/ UNCHANGED runs \/ Forgets
    PROVE  SameTexts /\ Len(runs') = Len(runs)
<1>1. Len(runs) \in Nat
  BY RunRows DEF Typed
<1> QED BY <1>1 DEF SameRuns, SameTexts, Forgets

LEMMA KnowsAtRest ==
    ASSUME NEW c \in Clients, Rests(c)
    PROVE  Knows(c)'
  BY RestCarries DEF Knows

LEMMA KnowsOn ==
    ASSUME Typed, NEW c \in Clients, Knows(c), Seen(c), Continues(c), SameItem, SameTexts,
           c \notin outdated' => c \notin outdated,
           call'[c].run = call[c].run \/ call'[c].run = 0
    PROVE  Knows(c)'
<1>1. call[c].run \in 0..Len(runs) /\ Len(runs) \in Nat
  BY SeenIsLong, RunRows DEF Typed
<1>2. ASSUME c \notin outdated', call'[c].run # 0 PROVE Mine(call[c].run)'
  <2>1. call'[c].run = call[c].run /\ call[c].run \in 1..Len(runs) /\ Mine(call[c].run)
    BY <1>1, <1>2 DEF Knows
  <2> QED BY <2>1 DEF Mine, SameTexts, SameItem
<1> QED BY <1>2 DEF Knows, Continues, SameItem

LEMMA KnowsOther ==
    ASSUME Typed, NEW c \in Clients, NEW d \in Clients, d # c, Knows(d), Others(c), SameItem,
           SameTexts, outdated \ {c} \subseteq outdated'
    PROVE  Knows(d)'
<1>1. call'[d] = call[d] /\ Len(runs) \in Nat
  BY RunRows DEF Others, Typed
<1>2. ASSUME Seen(d), d \notin outdated', call[d].run # 0 PROVE Mine(call[d].run)'
  <2>1. call[d].run \in 1..Len(runs) /\ Mine(call[d].run)
    BY <1>1, <1>2, SeenIsLong DEF Typed, Knows
  <2> QED BY <1>1, <2>1 DEF Mine, SameTexts, SameItem
<1> QED BY <1>1, <1>2 DEF Knows, Seen, SameItem

LEMMA TurnsStayKnown ==
    ASSUME Typed, Knowing, SameTexts, UNCHANGED turns
    PROVE  TurnsKnown'
<1>1. ASSUME NEW i \in 1..Len(turns), turns[i].run # 0
      PROVE  runs'[turns[i].run].key = turns[i].rev
  <2>1. turns[i].run \in 1..Len(runs)
    <3>1. turns[i] \in TurnRow /\ turns[i].run <= Len(runs) /\ Len(runs) \in Nat
      BY RunRows DEF Typed, TurnsTyped
    <3> QED BY <1>1, <3>1 DEF TurnRow
  <2> QED BY <1>1, <2>1 DEF Knowing, TurnsKnown, SameTexts, Typed, TurnsTyped
<1>2. DOMAIN turns' = 1..Len(turns)
  BY DEF Typed, TurnsTyped
<1> QED BY <1>1, <1>2 DEF TurnsKnown

LEMMA ItemStaysKnown ==
    ASSUME Typed, Knowing, SameTexts, SameItem, item'.run = item.run
    PROVE  ItemKnown'
<1>1. item.run \in Nat /\ item.run <= Len(runs)
  BY DEF Typed, ItemTyped, ItemRow
<1>2. CASE item.run # 0
  <2>1. item.run \in 1..Len(runs)
    BY <1>1, <1>2, RunRows DEF Typed
  <2> QED BY <1>2, <2>1 DEF Knowing, ItemKnown, Mine, SameTexts, SameItem
<1> QED BY <1>2 DEF ItemKnown

\* Knowledge is kept by a step that leaves the revision alone.
LEMMA KnowingKept ==
    ASSUME Typed, Knowing, RunsTyped', NEW c \in Clients, Others(c), SameItem, SameTexts,
           Len(runs') = Len(runs), ItemKnown', TurnsKnown',
           outdated \ {c} \subseteq outdated', Knows(c)'
    PROVE  Knowing'
<1>1. DOMAIN runs = 1..Len(runs) /\ DOMAIN runs' = 1..Len(runs)
  BY DEF Typed, RunsTyped
<1>2. KeysKnown'
  BY <1>1 DEF Knowing, KeysKnown, SameTexts, SameItem
<1>3. ASSUME NEW d \in Clients PROVE Knows(d)'
  <2>1. CASE d # c
    BY <2>1, KnowsOther DEF Knowing
  <2> QED BY <2>1
<1> QED BY <1>2, <1>3 DEF Knowing

\* A step that touches neither the item nor a run's key.
LEMMA KnowingAlone ==
    ASSUME Typed, Knowing, RunsTyped', NEW c \in Clients, Others(c), SameItem, item'.run = item.run,
           SameTexts, Len(runs') = Len(runs), UNCHANGED turns,
           outdated \ {c} \subseteq outdated', Knows(c)'
    PROVE  Knowing'
  BY KnowingKept, ItemStaysKnown, TurnsStayKnown

LEMMA KnowingAtRest ==
    ASSUME Typed, Knowing, NEW c \in Clients, Others(c), Rests(c),
           UNCHANGED <<item, turns, runs>>, outdated \ {c} \subseteq outdated'
    PROVE  Knowing'
<1>1. RunsTyped' /\ SameTexts /\ Len(runs') = Len(runs) /\ SameItem /\ item'.run = item.run
  BY TextsStay DEF Typed, RunsTyped, SameItem
<1>2. Knows(c)'
  BY KnowsAtRest
<1> QED BY <1>1, <1>2, KnowingAlone

\* A new revision: nothing of it is known but to its author, who reads it again.
LEMMA KnowingRevised ==
    ASSUME Typed, Knowing, NEW c \in Clients, Rests(c), UNCHANGED runs,
           item'.rev = item.rev + 1, item'.run = 0, outdated' = Clients \ {c}, TurnsKnown'
    PROVE  Knowing'
<1>1. /\ DOMAIN runs = 1..Len(runs) /\ item.rev \in Nat
      /\ \A r \in 1..Len(runs) : runs[r].key \in Nat
  BY RunRows DEF Typed, RunRow, ItemTyped, ItemRow
<1>2. KeysKnown'
  <2>1. ASSUME NEW r \in 1..Len(runs) PROVE runs[r].key <= item.rev + 1 /\ runs[r].key # item.rev + 1
    <3>1. r \in DOMAIN runs /\ KeysKnown
      BY <1>1 DEF Knowing
    <3>2. runs[r].key <= item.rev
      BY <3>1 DEF KeysKnown
    <3> QED BY <1>1, <3>2
  <2> QED BY <1>1, <2>1 DEF KeysKnown
<1>3. Knows(c)'
  BY KnowsAtRest
<1>4. \A d \in Clients : Knows(d)'
  BY <1>3 DEF Knows
<1> QED BY <1>2, <1>4 DEF Knowing, ItemKnown

\* A report of the run its author works for.
LEMMA KnowingReported ==
    ASSUME Typed, Typed', Knowing, NEW c \in Clients, Others(c), Seen(c), Reports(c),
           "overtaken" \notin anomaly', UNCHANGED runs,
           item'.run = call[c].run \/ (call[c].run = 0 /\ item'.run = item.run), Knows(c)'
    PROVE  Knowing'
<1>1. c \notin outdated /\ outdated' = outdated
  BY DEF Reports, Record, Flag
<1>2. RunsTyped' /\ SameTexts /\ Len(runs') = Len(runs) /\ SameItem
  BY TextsStay DEF Typed, RunsTyped, Reports
<1>3. call[c].run # 0 => Mine(call[c].run)
  BY <1>1 DEF Knowing, Knows
<1>4. ItemKnown'
  BY <1>2, <1>3 DEF ItemKnown, Mine, SameItem, Knowing
<1>5. TurnsKnown'
  <2>1. /\ DOMAIN turns' = 1..Len(turns) /\ DOMAIN turns = 1..Len(turns)
        /\ \A i \in 1..Len(turns) : turns[i].run \in Nat /\ turns[i].run <= Len(runs)
    <3>1. /\ turns \in Seq(TurnRow) /\ turns' \in Seq(TurnRow) /\ Len(turns') = Len(turns)
          /\ \A i \in 1..Len(turns) : turns[i] \in TurnRow /\ turns[i].run <= Len(runs)
      BY DEF Typed, TurnsTyped, Reports, Linking
    <3> QED BY <3>1 DEF TurnRow
  <2>2. ASSUME NEW i \in 1..Len(turns), turns'[i].run # 0
        PROVE  runs[turns'[i].run].key = turns'[i].rev
    <3>1. CASE turns'[i].run = turns[i].run
      BY <2>1, <2>2, <3>1 DEF Knowing, TurnsKnown, Reports, Linking
    <3>2. CASE turns[i].rev = item.rev /\ turns'[i].run = call[c].run /\ call[c].run # 0
      BY <1>3, <3>2 DEF Mine, Reports, Linking
    <3> QED BY <3>1, <3>2 DEF Reports, Linking
  <2> QED BY <2>1, <2>2 DEF TurnsKnown
<1> QED BY <1>1, <1>2, <1>4, <1>5, KnowingKept

LEMMA KnowingStep ==
    ASSUME Typed, Typed', Rows, Knowing, NEW c \in Clients, Step(c), "overtaken" \notin anomaly'
    PROVE  Knowing'
<1>0. outdated \subseteq Clients /\ RunsTyped' /\ Knows(c)
  BY DEF Typed, Counted, Knowing
<1>1. CASE SettleAll(c)
  <2>1. /\ Others(c) /\ Rests(c) /\ SameRuns /\ UNCHANGED <<item, turns, outdated>>
    BY <1>1, SettleAllEffect
  <2>2. SameItem /\ item'.run = item.run /\ Knows(c)'
    BY <2>1, KnowsAtRest DEF SameItem
  <2> QED BY <1>0, <2>1, <2>2, TextsStay, KnowingAlone
<1>2. CASE Read(c)
  <2>1. /\ Others(c) /\ UNCHANGED <<item, turns, runs>> /\ outdated \ {c} \subseteq outdated'
        /\ call'[c].pc = "idle" \/ (item.there /\ Remembers(c))
    BY <1>2, ReadEffect
  <2>2. SameItem /\ item'.run = item.run /\ SameTexts /\ Len(runs') = Len(runs)
    BY <2>1, TextsStay DEF SameItem
  <2>3. CASE call'[c].pc = "idle"
    BY <2>1, <2>3, KnowingAtRest DEF Rests
  <2>4. CASE item.there /\ Remembers(c)
    <3>1. RunOf(item) # 0 => Mine(RunOf(item))
      <4>1. CASE item.run # 0
        BY <4>1, RunOfItem DEF Typed, Knowing, ItemKnown
      <4>2. CASE item.run = 0 /\ item.status # "archived"
        <5>1. RunOf(item) = KnownRun(item.rev)
          BY <4>2, RunOfItem DEF Typed
        <5>2. RunOf(item) # 0 => RunOf(item) \in DOMAIN runs /\ runs[RunOf(item)].key = item.rev
          <6>1. \/ KnownRun(item.rev) = 0
                \/ /\ KnownRun(item.rev) \in 1..Len(runs)
                   /\ runs[KnownRun(item.rev)].key = item.rev
            BY KnownRunIsOne DEF Typed
          <6> QED BY <5>1, <6>1, RunRows DEF Typed
        <5> QED BY <5>2 DEF Knowing, KeysKnown, Mine
      <4>3. CASE item.run = 0 /\ item.status = "archived"
        BY <4>3, RunOfItem DEF Typed
      <4> QED BY <4>1, <4>2, <4>3
    <3>2. Knows(c)'
      BY <2>1, <2>4, <3>1 DEF Knows, Mine, Remembers
    <3> QED BY <1>0, <2>1, <2>2, <3>2, KnowingAlone
  <2> QED BY <2>1, <2>3, <2>4
<1>3. CASE Sync(c)
  <2>1. Others(c) /\ UNCHANGED runs /\ Seen(c)
    BY <1>3, SyncEffect DEF Seen, SeenPcs
  <2>2. CASE Rests(c) /\ UNCHANGED <<item, turns, outdated>>
    BY <2>1, <2>2, KnowingAtRest
  <2>3. CASE /\ Reports(c) /\ item'.run = call[c].run
             /\ \/ Rests(c)
                \/ /\ call'[c].rev = item.rev /\ call'[c].text = item.text
                   /\ call'[c].run = call[c].run
    <3>1. c \notin outdated /\ item.there /\ SameItem
      BY <2>3 DEF Reports, Record, Flag
    <3>2. call[c].run # 0 => Mine(call[c].run)
      BY <1>0, <2>1, <3>1 DEF Knows
    <3>3. Knows(c)'
      <4>1. CASE Rests(c)
        BY <4>1, KnowsAtRest
      <4>2. CASE /\ call'[c].rev = item.rev /\ call'[c].text = item.text
                 /\ call'[c].run = call[c].run
        BY <2>1, <3>1, <3>2, <4>2 DEF Knows, Mine, SameItem
      <4> QED BY <2>3, <4>1, <4>2
    <3> QED BY <2>1, <2>3, <3>3, KnowingReported
  <2> QED BY <1>3, <2>2, <2>3, SyncEffect
<1>4. CASE Refused(c)
  <2>1. Others(c) /\ Rests(c) /\ UNCHANGED <<item, turns, runs, outdated>>
    BY <1>4, RefusedEffect
  <2> QED BY <2>1, KnowingAtRest
<1>5. CASE Continue(c)
  <2>1. Others(c) /\ Rests(c) /\ UNCHANGED runs /\ call[c].pc = "act"
    BY <1>5, ContinueEffect
  <2>2. CASE UNCHANGED <<item, turns, outdated>>
    BY <2>1, <2>2, KnowingAtRest
  <2>3. CASE /\ item'.rev = call[c].rev + 1 /\ item'.run = 0 /\ Redirect(c)
             /\ Len(turns') = Len(turns) + 1 /\ turns'[Len(turns) + 1].run = 0
             /\ \A i \in 1..Len(turns) : turns'[i] = turns[i]
    <3>1. c \notin outdated /\ outdated' = Clients \ {c}
      BY <2>3 DEF Redirect, Flag
    <3>2. item'.rev = item.rev + 1
      BY <1>0, <2>1, <2>3, <3>1 DEF Knows, Seen, SeenPcs
    <3>3. TurnsKnown'
      <4>1. /\ DOMAIN turns = 1..Len(turns) /\ DOMAIN turns' = 1..(Len(turns) + 1)
            /\ Len(turns) \in Nat
        BY <2>3 DEF Typed, TurnsTyped
      <4>2. ASSUME NEW i \in 1..(Len(turns) + 1), turns'[i].run # 0
            PROVE  runs[turns'[i].run].key = turns'[i].rev
        <5>1. i \in 1..Len(turns) /\ turns'[i] = turns[i]
          BY <2>3, <4>1, <4>2
        <5> QED BY <4>1, <4>2, <5>1 DEF Knowing, TurnsKnown
      <4> QED BY <2>1, <4>1, <4>2 DEF TurnsKnown
    <3> QED BY <2>1, <2>3, <3>1, <3>2, <3>3, KnowingRevised
  <2> QED BY <1>5, <2>2, <2>3, ContinueEffect
<1>6. CASE Update(c)
  <2>1. Others(c) /\ Rests(c) /\ UNCHANGED <<runs, turns>> /\ call[c].pc = "act"
        /\ item'.there = item.there
    BY <1>6, UpdateEffect
  <2>2. SameTexts /\ Len(runs') = Len(runs) /\ TurnsKnown'
    BY <2>1, TextsStay, TurnsStayKnown
  <2>3. CASE item'.rev = call[c].rev + 1 /\ item'.run = 0 /\ Redirect(c)
    <3>1. c \notin outdated /\ outdated' = Clients \ {c}
      BY <2>3 DEF Redirect, Flag
    <3>2. item'.rev = item.rev + 1
      BY <1>0, <2>1, <2>3, <3>1 DEF Knows, Seen, SeenPcs
    <3> QED BY <2>1, <2>2, <2>3, <3>1, <3>2, KnowingRevised
  <2>4. CASE /\ item'.rev = call[c].rev /\ item'.text = item.text
             /\ item'.run = item.run /\ Record(c)
    <3>1. c \notin outdated /\ outdated' = outdated
      BY <2>4 DEF Record, Flag
    <3>2. SameItem
      BY <1>0, <2>1, <2>4, <3>1 DEF Knows, Seen, SeenPcs, SameItem
    <3>3. Knows(c)'
      BY <2>1, KnowsAtRest
    <3> QED BY <1>0, <2>1, <2>2, <2>4, <3>1, <3>2, <3>3, KnowingAlone
  <2> QED BY <1>6, <2>3, <2>4, UpdateEffect
<1>7. CASE Start(c)
  <2>1. Others(c) /\ Rests(c) /\ UNCHANGED <<item, turns, runs, outdated>>
    BY <1>7, StartEffect
  <2> QED BY <2>1, KnowingAtRest
<1>8. CASE Restart(c)
  <2>1. Others(c) /\ UNCHANGED <<runs, turns>> /\ Seen(c)
    BY <1>8, RestartEffect DEF Seen, SeenPcs
  <2>2. SameTexts /\ Len(runs') = Len(runs) /\ TurnsKnown'
    BY <2>1, TextsStay, TurnsStayKnown
  <2>3. CASE /\ Rests(c) /\ Redirect(c)
             /\ item.there => item'.rev = call[c].rev + 1 /\ item'.run = 0
    <3>1. c \notin outdated /\ outdated' = Clients \ {c}
      BY <2>3 DEF Redirect, Flag
    <3>2. item.there /\ item'.rev = item.rev + 1 /\ item'.run = 0
      BY <1>0, <2>1, <2>3, <3>1 DEF Knows
    <3> QED BY <2>1, <2>2, <2>3, <3>1, <3>2, KnowingRevised
  <2>4. CASE Continues(c) /\ call'[c].run = call[c].run /\ UNCHANGED <<item, outdated>>
    <3>1. SameItem /\ Knows(c)'
      BY <1>0, <2>1, <2>2, <2>4, KnowsOn DEF SameItem
    <3> QED BY <1>0, <2>1, <2>2, <2>4, <3>1, KnowingAlone
  <2> QED BY <1>8, <2>3, <2>4, RestartEffect
<1>9. CASE MarkStarted(c)
  <2>1. Others(c) /\ UNCHANGED <<runs, turns>> /\ Seen(c)
    BY <1>9, MarkStartedEffect DEF Seen, SeenPcs
  <2>2. SameTexts /\ Len(runs') = Len(runs)
    BY <2>1, TextsStay
  <2>3. CASE Rests(c) /\ UNCHANGED <<item, outdated>>
    BY <2>1, <2>3, KnowingAtRest
  <2>4. CASE /\ Continues(c) /\ call'[c].run = call[c].run
             /\ \/ UNCHANGED <<item, outdated>>
                \/ Redirect(c) /\ SameItem /\ item'.run = item.run
    <3>1. SameItem /\ item'.run = item.run
      BY <2>4 DEF SameItem
    <3>2. (c \notin outdated' => c \notin outdated) /\ outdated \ {c} \subseteq outdated'
      BY <1>0, <2>4 DEF Redirect, Flag
    <3>3. Knows(c)'
      BY <1>0, <2>1, <2>2, <2>4, <3>1, <3>2, KnowsOn
    <3> QED BY <1>0, <2>1, <2>2, <3>1, <3>2, <3>3, KnowingAlone
  <2> QED BY <1>9, <2>3, <2>4, MarkStartedEffect
<1>10. CASE CreateRun(c)
  <2> DEFINE old == KnownRun(call[c].rev)
  <2>1. Others(c) /\ UNCHANGED <<item, turns>> /\ Seen(c) /\ SameItem
    BY <1>10, CreateRunEffect DEF Seen, SeenPcs, SameItem
  <2>2. CASE Rests(c) /\ UNCHANGED <<runs, outdated>>
    BY <2>1, <2>2, KnowingAtRest
  <2>3. CASE Continues(c) /\ call'[c].run = 0 /\ UNCHANGED <<runs, outdated>>
    <3>1. SameTexts /\ Len(runs') = Len(runs)
      BY <2>3, TextsStay
    <3>2. Knows(c)'
      BY <1>0, <2>1, <2>3, <3>1, KnowsOn
    <3> QED BY <1>0, <2>1, <2>3, <3>1, <3>2, KnowingAlone
  <2>4. CASE /\ Continues(c) /\ old # 0 /\ call'[c].run = old
             /\ runs[old].text = call[c].text /\ UNCHANGED <<runs, outdated>>
    <3>1. SameTexts /\ Len(runs') = Len(runs)
      BY <2>4, TextsStay
    <3>2. runs[old].key = call[c].rev
      BY <2>4, KnownRunIsOne DEF Typed
    <3> HIDE DEF old
    <3>3. Knows(c)'
      BY <1>0, <2>1, <2>4, <3>2 DEF Knows, Mine, Continues
    <3> QED BY <1>0, <2>1, <2>4, <3>1, <3>3, KnowingAlone
  <2>5. CASE Continues(c) /\ Adds(c) /\ call'[c].run = Len(runs) + 1 /\ Record(c)
    <3>1. c \notin outdated /\ outdated' = outdated
      BY <2>5 DEF Record, Flag
    <3>2. call[c].rev = item.rev /\ call[c].text = item.text /\ item.there
      BY <1>0, <2>1, <3>1 DEF Knows
    <3>3. /\ Len(runs) \in Nat /\ DOMAIN runs = 1..Len(runs) /\ DOMAIN runs' = 1..(Len(runs) + 1)
          /\ item.rev \in Nat /\ \A r \in 1..Len(runs) : runs'[r] = runs[r]
          /\ runs'[Len(runs) + 1].key = item.rev /\ runs'[Len(runs) + 1].text = item.text
      BY <2>5, <3>2, RunRows DEF Typed, Adds, RunsTyped, ItemTyped, ItemRow
    <3>4. SameTexts
      BY <2>5, <3>3 DEF SameTexts, Adds
    <3>5. ItemKnown' /\ TurnsKnown'
      BY <2>1, <3>4, ItemStaysKnown, TurnsStayKnown
    <3>6. KeysKnown'
      <4>1. ASSUME NEW r \in 1..(Len(runs) + 1)
            PROVE  runs'[r].key <= item.rev /\ (runs'[r].key = item.rev => runs'[r].text = item.text)
        <5>1. CASE r \in 1..Len(runs)
          BY <3>3, <5>1 DEF Knowing, KeysKnown
        <5>2. CASE r = Len(runs) + 1
          BY <3>3, <5>2
        <5> QED BY <3>3, <5>1, <5>2
      <4> QED BY <2>1, <3>3, <4>1 DEF KeysKnown
    <3>7. Knows(c)'
      BY <2>1, <2>5, <3>2, <3>3 DEF Knows, Mine, Continues
    <3>8. ASSUME NEW d \in Clients PROVE Knows(d)'
      <4>1. CASE d # c
        BY <2>1, <3>1, <3>4, <4>1, KnowsOther DEF Knowing
      <4> QED BY <3>7, <4>1
    <3> QED BY <3>5, <3>6, <3>8 DEF Knowing
  <2> QED BY <1>10, <2>2, <2>3, <2>4, <2>5, CreateRunEffect
<1>11. CASE Lease(c)
  <2>1. /\ Others(c) /\ UNCHANGED <<item, turns>> /\ Seen(c)
        /\ SameRuns \/ UNCHANGED runs
        /\ Rests(c) \/ (Continues(c) /\ call'[c].run = call[c].run)
        /\ outdated' = outdated \/ (Record(c) \/ Execution(c))
    BY <1>11, LeaseEffect DEF Seen, SeenPcs, Changes
  <2>2. SameTexts /\ Len(runs') = Len(runs) /\ SameItem /\ item'.run = item.run
    BY <2>1, TextsStay DEF SameItem
  <2>3. (c \notin outdated' => c \notin outdated) /\ outdated \ {c} \subseteq outdated'
    BY <1>0, <2>1 DEF Record, Execution, Flag
  <2>4. Knows(c)'
    BY <1>0, <2>1, <2>2, <2>3, KnowsOn, KnowsAtRest
  <2> QED BY <1>0, <2>1, <2>2, <2>3, <2>4, KnowingAlone
<1>12. CASE Execute(c)
  <2>1. /\ Others(c) /\ UNCHANGED <<item, turns, outdated>> /\ Seen(c)
        /\ SameRuns \/ UNCHANGED runs
        /\ Rests(c) \/ (Continues(c) /\ call'[c].run = call[c].run)
    BY <1>12, ExecuteEffect DEF Seen, SeenPcs, Changes
  <2>2. SameTexts /\ Len(runs') = Len(runs) /\ SameItem /\ item'.run = item.run
    BY <2>1, TextsStay DEF SameItem
  <2>3. Knows(c)'
    BY <1>0, <2>1, <2>2, KnowsOn, KnowsAtRest
  <2> QED BY <1>0, <2>1, <2>2, <2>3, KnowingAlone
<1>13. CASE RecordResult(c)
  <2>1. Others(c) /\ UNCHANGED runs /\ Seen(c) /\ Rests(c) /\ Knows(c)'
    BY <1>13, RecordResultEffect, KnowsAtRest DEF Seen, SeenPcs
  <2>2. CASE UNCHANGED <<item, turns, outdated>>
    BY <2>1, <2>2, KnowingAtRest
  <2>3. CASE Reports(c) /\ item'.run = IF call[c].run = 0 THEN item.run ELSE call[c].run
    BY <2>1, <2>3, KnowingReported
  <2> QED BY <1>13, <2>2, <2>3, RecordResultEffect
<1>14. CASE Settle(c)
  <2>1. Others(c) /\ UNCHANGED <<item, turns, runs, outdated>> /\ Seen(c)
    BY <1>14, SettleEffect DEF Seen, SeenPcs
  <2>2. SameTexts /\ Len(runs') = Len(runs) /\ SameItem /\ item'.run = item.run
    BY <2>1, TextsStay DEF SameItem
  <2>3. \/ Rests(c) \/ call'[c].pc = "read" \/ (Continues(c) /\ call'[c].run = call[c].run)
    BY <1>14, SettleEffect
  <2>4. Knows(c)'
    <3>1. CASE call'[c].pc = "read"
      BY <3>1 DEF Knows, Seen, SeenPcs
    <3> QED BY <1>0, <2>1, <2>2, <2>3, <3>1, KnowsOn, KnowsAtRest
  <2> QED BY <1>0, <2>1, <2>2, <2>4, KnowingAlone
<1>15. CASE Reconcile(c)
  <2>1. Others(c) /\ UNCHANGED <<item, turns, runs, outdated>> /\ Seen(c)
        /\ Continues(c) /\ call'[c].run = call[c].run
    BY <1>15, ReconcileEffect DEF Seen, SeenPcs
  <2>2. SameTexts /\ Len(runs') = Len(runs) /\ SameItem /\ item'.run = item.run
    BY <2>1, TextsStay DEF SameItem
  <2>3. Knows(c)'
    BY <1>0, <2>1, <2>2, KnowsOn
  <2> QED BY <1>0, <2>1, <2>2, <2>3, KnowingAlone
<1>16. CASE Cancel(c)
  <2>1. /\ Others(c) /\ UNCHANGED <<item, turns, outdated>> /\ Seen(c)
        /\ SameRuns \/ UNCHANGED runs
        /\ Rests(c) \/ (Continues(c) /\ call'[c].run = call[c].run)
    BY <1>16, CancelEffect DEF Seen, SeenPcs, Changes
  <2>2. SameTexts /\ Len(runs') = Len(runs) /\ SameItem /\ item'.run = item.run
    BY <2>1, TextsStay DEF SameItem
  <2>3. Knows(c)'
    BY <1>0, <2>1, <2>2, KnowsOn, KnowsAtRest
  <2> QED BY <1>0, <2>1, <2>2, <2>3, KnowingAlone
<1>17. CASE Archive(c) \/ Restore(c)
  <2>1. /\ Others(c) /\ Rests(c) /\ Redirect(c) /\ SameItem /\ item'.run = item.run
        /\ UNCHANGED <<turns, runs>>
    BY <1>17, ArchiveEffect, RestoreEffect
  <2>2. outdated \ {c} \subseteq outdated' /\ Knows(c)'
    BY <1>0, <2>1, KnowsAtRest DEF Redirect
  <2> QED BY <1>0, <2>1, <2>2, TextsStay, KnowingAlone
<1>18. CASE Delete(c)
  <2>1. /\ Rests(c) /\ Redirect(c) /\ item'.rev = item.rev /\ item'.text = item.text
        /\ item'.run = item.run /\ turns' = <<>> /\ Forgets
    BY <1>18, DeleteEffect
  <2>2. /\ DOMAIN runs = 1..Len(runs) /\ DOMAIN runs' = 1..Len(runs) /\ DOMAIN turns' = {}
        /\ item.run # 0 => item.run \in 1..Len(runs)
    BY <2>1, RunRows DEF Typed, ItemTyped, ItemRow, RunsTyped, Forgets
  <2>3. ItemKnown' /\ KeysKnown' /\ TurnsKnown'
    BY <2>1, <2>2 DEF Knowing, ItemKnown, KeysKnown, TurnsKnown, Mine, Forgets
  <2>4. Knows(c)'
    BY <2>1, KnowsAtRest
  <2>5. \A d \in Clients : Knows(d)'
    BY <2>1, <2>4 DEF Knows, Redirect
  <2> QED BY <2>3, <2>5 DEF Knowing
<1> QED BY <1>1, <1>2, <1>3, <1>4, <1>5, <1>6, <1>7, <1>8, <1>9, <1>10, <1>11, <1>12, <1>13,
           <1>14, <1>15, <1>16, <1>17, <1>18 DEF Step

LEMMA KnowingCrash ==
    ASSUME Typed, Typed', Knowing, NEW c \in Clients, Crash(c)
    PROVE  Knowing'
<1>1. Others(c) /\ Rests(c) /\ SameRuns /\ UNCHANGED <<item, turns, outdated>>
  BY CrashEffect
<1>2. RunsTyped' /\ SameItem /\ item'.run = item.run /\ Knows(c)' /\ outdated \ {c} \subseteq outdated'
  BY <1>1, KnowsAtRest DEF Typed, SameItem
<1> QED BY <1>1, <1>2, TextsStay, KnowingAlone

LEMMA KnowingCreate ==
    ASSUME Typed, Typed', Rows, NEW c \in Clients, Create(c)
    PROVE  Knowing'
<1>1. /\ UNCHANGED <<runs, call>> /\ runs = <<>> /\ ops = 0 /\ Len(turns') = 1
      /\ turns'[1].run = 0 /\ item'.run = 0
  BY CreateEffect DEF Rows, Create
<1>2. DOMAIN runs' = {} /\ DOMAIN turns' = {1}
  BY <1>1 DEF Typed, TurnsTyped
<1>3. \A d \in Clients : call'[d].pc = "idle"
  BY <1>1 DEF Rows, Untouched, Idle
<1>4. \A d \in Clients : Knows(d)'
  BY <1>3 DEF Knows, Seen, SeenPcs
<1> QED BY <1>1, <1>2, <1>4 DEF Knowing, ItemKnown, KeysKnown, TurnsKnown

LEMMA KnowingBegin ==
    ASSUME Typed, Knowing, NEW c \in Clients, NEW op \in Operations, Begin(c, op)
    PROVE  Knowing'
<1>1. Others(c) /\ Rests(c) /\ UNCHANGED <<item, turns, runs, outdated>>
  BY BeginEffect
<1> QED BY <1>1, KnowingAtRest

-----------------------------------------------------------------------------
(* What a settlement was decided on.                                         *)

\* No run comes back, and none that was decided for good is undecided.
StillForced ==
    \A r \in 1..Len(runs) : /\ runs'[r].there => runs[r].there
                            /\ runs[r].status \in Forced => runs'[r].status \in Forced

OneRunOf(v) == \E r \in 1..Len(runs) : runs[r].key = v
AllForced(v) == \A r \in 1..Len(runs) : runs[r].there /\ runs[r].key = v => runs[r].status \in Forced

LEMMA SettlesOneIs ==
    ASSUME Typed, NEW c \in Clients
    PROVE  SettlesOne(c) <=>
             (c \notin outdated =>
                /\ call[c].pc \in {"sync", "act"} /\ call[c].run_st = "awaiting_one" =>
                      call[c].run # 0 /\ runs[call[c].run].status \in Forced
                /\ call[c].pc \in {"read", "sync", "act", "lease"} /\ call[c].op = "reconcile_only" =>
                      OneRunOf(item.rev) /\ AllForced(item.rev))
  BY RunRows DEF Typed, SettlesOne, OneRunOf, AllForced

LEMMA SettlesOneWill ==
    ASSUME RunsTyped', NEW c \in Clients, c \notin outdated',
           call'[c].pc \in {"sync", "act"} /\ call'[c].run_st = "awaiting_one" =>
              call'[c].run # 0 /\ runs'[call'[c].run].status \in Forced,
           call'[c].pc \in {"read", "sync", "act", "lease"} /\ call'[c].op = "reconcile_only" =>
              OneRunOf(item.rev)' /\ AllForced(item.rev)'
    PROVE  SettlesOne(c)'
<1>1. DOMAIN runs' = 1..Len(runs')
  BY DEF RunsTyped
<1> QED BY <1>1 DEF SettlesOne, OneRunOf, AllForced

\* Neither at rest, nor starting, executing or reporting does a call settle.
LEMMA SettlesNothing ==
    ASSUME NEW c \in Clients, Rests(c) \/ call'[c].pc \in {"create", "execute", "record"}
    PROVE  SettlesOne(c)'
  BY DEF Rests, SettlesOne

LEMMA StaysDecided ==
    ASSUME Typed, SameTexts, Len(runs') = Len(runs), StillForced, item'.rev = item.rev
    PROVE  /\ OneRunOf(item.rev) => OneRunOf(item.rev)'
           /\ AllForced(item.rev) => AllForced(item.rev)'
  BY RunRows DEF Typed, SameTexts, StillForced, OneRunOf, AllForced

LEMMA SettlesOther ==
    ASSUME Typed, RunsTyped', NEW c \in Clients, NEW d \in Clients, d # c, SettlesOne(d), Others(c),
           item'.rev = item.rev, SameTexts, Len(runs') = Len(runs), StillForced,
           outdated \ {c} \subseteq outdated'
    PROVE  SettlesOne(d)'
<1>1. call'[d] = call[d]
  BY DEF Others
<1>2. CASE d \in outdated'
  BY <1>2 DEF SettlesOne
<1>3. CASE d \notin outdated'
  <2>1. d \notin outdated
    BY <1>3
  <2>2. ASSUME call[d].pc \in {"sync", "act"}, call[d].run_st = "awaiting_one"
        PROVE  call[d].run # 0 /\ runs'[call[d].run].status \in Forced
    <3>1. call[d].run # 0 /\ runs[call[d].run].status \in Forced
      BY <2>1, <2>2, SettlesOneIs
    <3>2. call[d].run \in 1..Len(runs)
      BY <2>2, <3>1, SeenIsLong, RunRows DEF Typed, Seen, SeenPcs
    <3> QED BY <3>1, <3>2 DEF StillForced
  <2>3. ASSUME call[d].pc \in {"read", "sync", "act", "lease"}, call[d].op = "reconcile_only"
        PROVE  OneRunOf(item.rev)' /\ AllForced(item.rev)'
    <3>1. OneRunOf(item.rev) /\ AllForced(item.rev)
      BY <2>1, <2>3, SettlesOneIs
    <3> QED BY <3>1, StaysDecided
  <2> QED BY <1>1, <1>3, <2>2, <2>3, SettlesOneWill
<1> QED BY <1>2, <1>3

LEMMA SettlesKept ==
    ASSUME Typed, RunsTyped', SettlesForced, NEW c \in Clients, Others(c), item'.rev = item.rev,
           SameTexts, Len(runs') = Len(runs), StillForced, outdated \ {c} \subseteq outdated',
           SettlesOne(c)'
    PROVE  SettlesForced'
<1>1. ASSUME NEW d \in Clients PROVE SettlesOne(d)'
  <2>1. CASE d # c
    BY <2>1, SettlesOther DEF SettlesForced
  <2> QED BY <2>1
<1> QED BY <1>1 DEF SettlesForced

LEMMA SettlesRedirected ==
    ASSUME NEW c \in Clients, outdated' = Clients \ {c}, SettlesOne(c)'
    PROVE  SettlesForced'
<1>1. ASSUME NEW d \in Clients PROVE SettlesOne(d)'
  BY DEF SettlesOne
<1> QED BY <1>1 DEF SettlesForced

\* A step that leaves item and runs alone.
LEMMA SettlesAlone ==
    ASSUME Typed, SettlesForced, NEW c \in Clients, Others(c), item'.rev = item.rev, UNCHANGED runs,
           outdated \ {c} \subseteq outdated', SettlesOne(c)'
    PROVE  SettlesForced'
<1>1. RunsTyped' /\ SameTexts /\ Len(runs') = Len(runs) /\ StillForced
  BY TextsStay DEF Typed, RunsTyped, StillForced
<1> QED BY <1>1, SettlesKept

\* The run of the item's revision is one, and it is there.
LEMMA RunOfRevision ==
    ASSUME Typed, Rows, item.there, NEW r \in 1..Len(runs), NEW q \in 1..Len(runs),
           runs[r].key = item.rev, runs[q].key = item.rev
    PROVE  r = q /\ runs[r].there
<1>1. runs[r].there /\ runs[q].there
  BY RunRows DEF Typed, Rows, Together
<1> QED BY <1>1, RunRows DEF Typed, Rows, OneRunPerRevision

\* What is forced for the run a client knows is forced for its revision.
LEMMA ForcedForRevision ==
    ASSUME Typed, Rows, NEW c \in Clients, Seen(c), Knows(c), c \notin outdated, call[c].run # 0,
           runs[call[c].run].status \in Forced
    PROVE  OneRunOf(item.rev) /\ AllForced(item.rev)
<1> DEFINE r == call[c].run
<1>1. r \in 1..Len(runs) /\ item.there /\ runs[r].key = item.rev
  BY SeenIsLong, RunRows DEF Typed, Knows, Mine
<1>2. ASSUME NEW q \in 1..Len(runs), runs[q].key = item.rev PROVE runs[q].status \in Forced
  BY <1>1, <1>2, RunOfRevision
<1> QED BY <1>1, <1>2 DEF OneRunOf, AllForced

LEMMA SettlesStep ==
    ASSUME Typed, Typed', Rows, Knowing, SettlesForced, NEW c \in Clients, Step(c),
           "overtaken" \notin anomaly'
    PROVE  SettlesForced'
<1>0. /\ outdated \subseteq Clients /\ RunsTyped' /\ Knows(c) /\ SettlesOne(c)
      /\ DOMAIN runs = 1..Len(runs)
  BY RunRows DEF Typed, Counted, Knowing, SettlesForced
<1>1. CASE SettleAll(c)
  <2>1. /\ Others(c) /\ Rests(c) /\ SameRuns /\ UNCHANGED <<item, outdated>>
        /\ \A r \in 1..Len(runs) : runs[r].status \notin Busy => runs'[r].status = runs[r].status
    BY <1>1, SettleAllEffect
  <2>2. StillForced
    BY <2>1 DEF StillForced, SameRuns, Forced, Terminal, Busy
  <2>3. SettlesOne(c)'
    BY <2>1, SettlesNothing
  <2> QED BY <1>0, <2>1, <2>2, <2>3, TextsStay, SettlesKept
<1>2. CASE Read(c)
  <2>1. /\ Others(c) /\ UNCHANGED <<item, runs>> /\ outdated \ {c} \subseteq outdated'
        /\ call'[c].pc = "idle" \/ (item.there /\ Remembers(c))
        /\ call[c].pc = "read" /\ (call[c].op = "reconcile_only" => outdated' = outdated)
    BY <1>2, ReadEffect
  <2>2. CASE call'[c].pc = "idle"
    BY <2>1, <2>2, SettlesNothing, SettlesAlone DEF Rests
  <2>3. CASE Remembers(c)
    <3>1. ASSUME call'[c].run_st = "awaiting_one"
          PROVE  call'[c].run # 0 /\ runs'[call'[c].run].status \in Forced
      BY <2>1, <2>3, <3>1 DEF Remembers, StatusOf, Forced
    <3>2. ASSUME c \notin outdated', call'[c].op = "reconcile_only"
          PROVE  OneRunOf(item.rev)' /\ AllForced(item.rev)'
      <4>1. c \notin outdated /\ call[c].op = "reconcile_only"
        BY <2>1, <2>3, <3>2 DEF Remembers
      <4>2. OneRunOf(item.rev) /\ AllForced(item.rev)
        BY <1>0, <2>1, <4>1, SettlesOneIs
      <4> QED BY <2>1, <4>2 DEF OneRunOf, AllForced
    <3>3. SettlesOne(c)'
      <4>1. CASE c \in outdated'
        BY <4>1 DEF SettlesOne
      <4> QED BY <1>0, <3>1, <3>2, <4>1, SettlesOneWill
    <3> QED BY <2>1, <3>3, SettlesAlone
  <2> QED BY <2>1, <2>2, <2>3
<1>3. CASE Sync(c)
  <2>1. Others(c) /\ UNCHANGED runs /\ call[c].pc = "sync" /\ Seen(c)
    BY <1>3, SyncEffect DEF Seen, SeenPcs
  <2>2. CASE Rests(c) /\ UNCHANGED <<item, outdated>>
    BY <2>1, <2>2, SettlesNothing, SettlesAlone
  <2>3. CASE /\ Reports(c)
             /\ \/ Rests(c)
                \/ /\ call'[c].pc = "act" /\ call'[c].op = call[c].op
                   /\ call'[c].run = call[c].run /\ call'[c].run_st = call[c].run_st
    <3>1. c \notin outdated /\ outdated' = outdated /\ item'.rev = item.rev
      BY <2>3 DEF Reports, Record, Flag, SameItem
    <3>2. SettlesOne(c)'
      <4>1. CASE Rests(c)
        BY <4>1, SettlesNothing
      <4>2. CASE /\ call'[c].pc = "act" /\ call'[c].op = call[c].op
                 /\ call'[c].run = call[c].run /\ call'[c].run_st = call[c].run_st
        <5>1. OneRunOf(item.rev)' = OneRunOf(item.rev) /\ AllForced(item.rev)' = AllForced(item.rev)
          BY <2>1, <3>1 DEF OneRunOf, AllForced
        <5>2. call[c].run_st = "awaiting_one" =>
                 call[c].run # 0 /\ runs[call[c].run].status \in Forced
          BY <1>0, <2>1, <3>1, SettlesOneIs
        <5>3. call[c].op = "reconcile_only" => OneRunOf(item.rev) /\ AllForced(item.rev)
          BY <1>0, <2>1, <3>1, SettlesOneIs
        <5> QED BY <1>0, <2>1, <3>1, <4>2, <5>1, <5>2, <5>3, SettlesOneWill
      <4> QED BY <2>3, <4>1, <4>2
    <3> QED BY <2>1, <3>1, <3>2, SettlesAlone
  <2> QED BY <1>3, <2>2, <2>3, SyncEffect
<1>4. CASE Refused(c)
  <2>1. Others(c) /\ Rests(c) /\ UNCHANGED <<item, runs, outdated>>
    BY <1>4, RefusedEffect
  <2> QED BY <2>1, SettlesNothing, SettlesAlone
<1>5. CASE Continue(c)
  <2>1. Others(c) /\ Rests(c) /\ UNCHANGED runs
        /\ (UNCHANGED <<item, outdated>> \/ Redirect(c))
    BY <1>5, ContinueEffect
  <2>2. SettlesOne(c)'
    BY <2>1, SettlesNothing
  <2> QED BY <2>1, <2>2, SettlesAlone, SettlesRedirected DEF Redirect
<1>6. CASE Update(c)
  <2>1. Others(c) /\ Rests(c) /\ UNCHANGED runs /\ call[c].pc = "act"
        /\ (Redirect(c) \/ (Record(c) /\ item'.rev = call[c].rev))
    BY <1>6, UpdateEffect
  <2>2. SettlesOne(c)'
    BY <2>1, SettlesNothing
  <2>3. CASE Redirect(c)
    BY <2>2, <2>3, SettlesRedirected DEF Redirect
  <2>4. CASE Record(c) /\ item'.rev = call[c].rev
    <3>1. c \notin outdated /\ outdated' = outdated
      BY <2>4 DEF Record, Flag
    <3>2. item'.rev = item.rev
      BY <1>0, <2>1, <2>4, <3>1 DEF Knows, Seen, SeenPcs
    <3> QED BY <2>1, <2>2, <3>1, <3>2, SettlesAlone
  <2> QED BY <2>1, <2>3, <2>4
<1>7. CASE Start(c)
  <2>1. Others(c) /\ Rests(c) /\ UNCHANGED <<item, runs, outdated>>
    BY <1>7, StartEffect
  <2> QED BY <2>1, SettlesNothing, SettlesAlone
<1>8. CASE Restart(c)
  <2>1. Others(c) /\ UNCHANGED runs /\ call[c].pc = "act"
        /\ \/ Rests(c) /\ Redirect(c)
           \/ /\ call'[c].pc = "act" /\ call'[c].op = "launch" /\ call'[c].run = call[c].run
              /\ call'[c].run_st = call[c].run_st /\ UNCHANGED <<item, outdated>>
    BY <1>8, RestartEffect
  <2>2. CASE Rests(c) /\ Redirect(c)
    BY <2>2, SettlesNothing, SettlesRedirected DEF Redirect
  <2>3. CASE /\ call'[c].pc = "act" /\ call'[c].op = "launch" /\ call'[c].run = call[c].run
             /\ call'[c].run_st = call[c].run_st /\ UNCHANGED <<item, outdated>>
    <3>1. SettlesOne(c)'
      <4>1. CASE c \in outdated
        BY <2>3, <4>1 DEF SettlesOne
      <4>2. CASE c \notin outdated
        <5>1. call[c].run_st = "awaiting_one" =>
                 call[c].run # 0 /\ runs[call[c].run].status \in Forced
          BY <1>0, <2>1, <4>2, SettlesOneIs
        <5> QED BY <1>0, <2>1, <2>3, <4>2, <5>1, SettlesOneWill
      <4> QED BY <4>1, <4>2
    <3> QED BY <2>1, <2>3, <3>1, SettlesAlone
  <2> QED BY <2>1, <2>2, <2>3
<1>9. CASE MarkStarted(c)
  <2>1. Others(c) /\ UNCHANGED runs
        /\ (Rests(c) \/ call'[c].pc = "create")
        /\ (UNCHANGED <<item, outdated>> \/ Redirect(c))
    BY <1>9, MarkStartedEffect
  <2>2. SettlesOne(c)'
    BY <2>1, SettlesNothing
  <2> QED BY <2>1, <2>2, SettlesAlone, SettlesRedirected DEF Redirect
<1>10. CASE CreateRun(c)
  <2> DEFINE old == KnownRun(call[c].rev)
  <2>1. Others(c) /\ UNCHANGED item /\ call[c].pc = "create" /\ Seen(c)
        /\ (Rests(c) \/ call'[c].pc = "record"
            \/ (call'[c].pc = "lease" /\ call'[c].op = call[c].op))
        /\ \/ UNCHANGED <<runs, outdated>>
           \/ old = 0 /\ item.there /\ Adds(c) /\ Record(c)
    BY <1>10, CreateRunEffect DEF Seen, SeenPcs
  <2>2. call[c].op = "launch"
    BY <2>1 DEF Typed, CallsTyped, Carries
  <2>3. SettlesOne(c)'
    <3>1. CASE call'[c].pc = "lease" /\ call'[c].op = call[c].op
      BY <2>2, <3>1 DEF SettlesOne
    <3> QED BY <2>1, <3>1, SettlesNothing
  <2>4. CASE UNCHANGED <<runs, outdated>>
    BY <2>1, <2>3, <2>4, SettlesAlone
  \* Nobody settles a revision that has no run.
  <2>5. CASE old = 0 /\ item.there /\ Adds(c) /\ Record(c)
    <3>1. c \notin outdated /\ outdated' = outdated
      BY <2>5 DEF Record, Flag
    <3>2. call[c].rev = item.rev
      BY <1>0, <2>1, <3>1 DEF Knows
    <3>3. ~OneRunOf(item.rev)
      <4>1. \A r \in 1..Len(runs) : ~(runs[r].there /\ runs[r].key = item.rev)
        BY <2>5, <3>2, KnownRunIsOne DEF Typed
      <4>2. \A r \in 1..Len(runs) : runs[r].there
        BY <1>0, <2>5 DEF Rows, Together
      <4> QED BY <4>1, <4>2 DEF OneRunOf
    <3>4. /\ Len(runs) \in Nat /\ \A r \in 1..Len(runs) : runs'[r] = runs[r]
      BY <2>5, RunRows DEF Typed, Adds
    <3>5. ASSUME NEW d \in Clients, d # c PROVE SettlesOne(d)'
      <4>1. call'[d] = call[d] /\ SettlesOne(d)
        BY <2>1, <3>5 DEF Others, SettlesForced
      <4>2. CASE d \in outdated
        BY <3>1, <4>2 DEF SettlesOne
      <4>3. CASE d \notin outdated
        <5>1. ~(call[d].pc \in {"read", "sync", "act", "lease"} /\ call[d].op = "reconcile_only")
          BY <3>3, <4>1, <4>3, SettlesOneIs
        <5>2. ASSUME call[d].pc \in {"sync", "act"}, call[d].run_st = "awaiting_one"
              PROVE  call[d].run # 0 /\ runs'[call[d].run].status \in Forced
          <6>1. call[d].run # 0 /\ runs[call[d].run].status \in Forced
            BY <4>1, <4>3, <5>2, SettlesOneIs
          <6>2. call[d].run \in 1..Len(runs)
            BY <5>2, <6>1, SeenIsLong, RunRows DEF Typed, Seen, SeenPcs
          <6> QED BY <3>4, <6>1, <6>2
        <5> QED BY <1>0, <3>1, <4>1, <4>3, <5>1, <5>2, SettlesOneWill
      <4> QED BY <4>2, <4>3
    <3> QED BY <2>3, <3>5 DEF SettlesForced
  <2> QED BY <2>1, <2>4, <2>5
<1>11. CASE Lease(c)
  <2> DEFINE r == call[c].run
  <2>1. /\ Others(c) /\ UNCHANGED item /\ r \in 1..Len(runs)
        /\ Rests(c) \/ call'[c].pc \in {"record", "execute"}
        /\ outdated' = outdated \/ (Record(c) \/ Execution(c))
    BY <1>11, LeaseEffect
  <2>2. \/ UNCHANGED runs
        \/ \E s \in Terminal : Changes(r, s, NoClient)
        \/ /\ runs[r].status \in {"awaiting", "pending", "running", "interrupted"}
           /\ Changes(r, "running", c)
    BY <1>11, LeaseEffect DEF Terminal
  <2>3. outdated \ {c} \subseteq outdated' /\ SettlesOne(c)'
    BY <1>0, <2>1, SettlesNothing DEF Record, Execution
  <2> HIDE DEF r
  <2>4. CASE UNCHANGED runs
    BY <2>1, <2>3, <2>4, SettlesAlone
  <2>5. CASE \E s \in Terminal : Changes(r, s, NoClient)
    <3>1. SameRuns /\ StillForced
      BY <2>1, <2>5 DEF StillForced, Changes, SameRuns, Forced
    <3> QED BY <1>0, <2>1, <2>3, <3>1, TextsStay, SettlesKept
  <2>6. CASE /\ runs[r].status \in {"awaiting", "pending", "running", "interrupted"}
             /\ Changes(r, "running", c)
    <3>1. SameRuns /\ StillForced
      BY <2>1, <2>6 DEF StillForced, Changes, SameRuns, Forced, Terminal
    <3> QED BY <1>0, <2>1, <2>3, <3>1, TextsStay, SettlesKept
  <2> QED BY <2>2, <2>4, <2>5, <2>6
<1>12. CASE Execute(c)
  <2> DEFINE r == call[c].run
  <2>1. /\ Others(c) /\ UNCHANGED <<item, outdated>> /\ r \in 1..Len(runs)
        /\ call[c].pc = "execute"
        /\ Rests(c) \/ call'[c].pc = "record"
        /\ \/ UNCHANGED runs
           \/ runs[r].there /\ \E s \in Terminal \cup Parked : Changes(r, s, NoClient)
    BY <1>12, ExecuteEffect
  <2>2. SettlesOne(c)'
    BY <2>1, SettlesNothing
  <2>3. CASE UNCHANGED runs
    BY <2>1, <2>2, <2>3, SettlesAlone
  <2>4. CASE runs[r].there /\ \E s \in Terminal \cup Parked : Changes(r, s, NoClient)
    <3>1. item.there
      BY <1>0, <2>1, <2>4 DEF Rows, Together
    <3>2. runs[r].status \in Busy
      BY <1>0, <2>1, <3>1, NoClientAssumption DEF Rows, Owners, Executes
    <3>3. runs[r].status \notin Forced
      BY <3>2 DEF Busy, Forced, Terminal
    <3> HIDE DEF r
    <3>4. SameRuns /\ StillForced
      BY <2>1, <2>4, <3>3 DEF StillForced, Changes, SameRuns
    <3> QED BY <1>0, <2>1, <2>2, <3>4, TextsStay, SettlesKept
  <2> QED BY <2>1, <2>3, <2>4
<1>13. CASE RecordResult(c)
  <2>1. Others(c) /\ UNCHANGED runs /\ Rests(c)
        /\ (UNCHANGED <<item, outdated>> \/ Reports(c))
    BY <1>13, RecordResultEffect
  <2>2. item'.rev = item.rev /\ outdated' = outdated /\ SettlesOne(c)'
    BY <2>1, SettlesNothing DEF Reports, SameItem, Record
  <2> QED BY <2>1, <2>2, SettlesAlone
<1>14. CASE Settle(c)
  <2>1. /\ Others(c) /\ UNCHANGED <<item, runs, outdated>> /\ Seen(c) /\ call[c].pc = "act"
        /\ \/ Rests(c)
           \/ /\ call'[c].pc = "read" /\ call'[c].op = "reconcile_only"
              /\ call[c].run_st = "awaiting_one"
           \/ call'[c].pc = "lease" /\ call'[c].op = "settle"
    BY <1>14, SettleEffect DEF Seen, SeenPcs
  <2>2. CASE Rests(c)
    BY <2>1, <2>2, SettlesNothing, SettlesAlone
  <2>3. CASE call'[c].pc = "lease" /\ call'[c].op = "settle"
    <3>1. SettlesOne(c)'
      BY <2>3 DEF SettlesOne
    <3> QED BY <2>1, <3>1, SettlesAlone
  <2>4. CASE /\ call'[c].pc = "read" /\ call'[c].op = "reconcile_only"
             /\ call[c].run_st = "awaiting_one"
    <3>1. SettlesOne(c)'
      <4>1. CASE c \in outdated
        BY <2>1, <4>1 DEF SettlesOne
      <4>2. CASE c \notin outdated
        <5>1. call[c].run # 0 /\ runs[call[c].run].status \in Forced
          BY <1>0, <2>1, <2>4, <4>2, SettlesOneIs
        <5>2. OneRunOf(item.rev) /\ AllForced(item.rev)
          BY <1>0, <2>1, <4>2, <5>1, ForcedForRevision
        <5>3. OneRunOf(item.rev)' /\ AllForced(item.rev)'
          BY <2>1, <5>2 DEF OneRunOf, AllForced
        <5> QED BY <1>0, <2>1, <2>4, <4>2, <5>3, SettlesOneWill
      <4> QED BY <4>1, <4>2
    <3> QED BY <2>1, <3>1, SettlesAlone
  <2> QED BY <2>1, <2>2, <2>3, <2>4
<1>15. CASE Reconcile(c)
  <2>1. /\ Others(c) /\ UNCHANGED <<item, runs, outdated>> /\ call[c].pc = "act"
        /\ call'[c].pc = "lease" /\ call'[c].op = call[c].op
    BY <1>15, ReconcileEffect
  <2>2. SettlesOne(c)'
    <3>1. CASE c \in outdated
      BY <2>1, <3>1 DEF SettlesOne
    <3>2. CASE c \notin outdated
      <4>1. call[c].op = "reconcile_only" => OneRunOf(item.rev) /\ AllForced(item.rev)
        BY <1>0, <2>1, <3>2, SettlesOneIs
      <4>2. OneRunOf(item.rev)' = OneRunOf(item.rev) /\ AllForced(item.rev)' = AllForced(item.rev)
        BY <2>1 DEF OneRunOf, AllForced
      <4> QED BY <1>0, <2>1, <3>2, <4>1, <4>2, SettlesOneWill
    <3> QED BY <3>1, <3>2
  <2> QED BY <2>1, <2>2, SettlesAlone
<1>16. CASE Cancel(c)
  <2> DEFINE r == call[c].run
  <2>1. /\ Others(c) /\ UNCHANGED <<item, outdated>> /\ r \in 1..Len(runs)
        /\ Rests(c) \/ call'[c].pc = "record"
        /\ \/ UNCHANGED runs
           \/ \E t \in RunStatus :
                 /\ Changes(r, t, runs[r].owner)
                 /\ \/ t \in Terminal
                    \/ t = "cancelled"
                    \/ runs[r].owner # NoClient
    BY <1>16, CancelEffect
  <2>2. SettlesOne(c)'
    BY <2>1, SettlesNothing
  <2>3. CASE UNCHANGED runs
    BY <2>1, <2>2, <2>3, SettlesAlone
  <2>4. ASSUME NEW t \in RunStatus, Changes(r, t, runs[r].owner),
               t \in Terminal \/ t = "cancelled" \/ runs[r].owner # NoClient
        PROVE  SettlesForced'
    <3>1. t \in Forced \/ runs[r].status \notin Forced
      <4>1. CASE t \in Terminal \/ t = "cancelled"
        BY <4>1 DEF Forced, Terminal
      <4>2. CASE runs[r].owner # NoClient
        <5>1. runs[r].status \in Busy
          BY <1>0, <2>1, <4>2 DEF Rows, Owners
        <5> QED BY <5>1 DEF Busy, Forced, Terminal
      <4> QED BY <2>4, <4>1, <4>2
    <3> HIDE DEF r
    <3>2. SameRuns /\ StillForced
      BY <2>1, <2>4, <3>1 DEF StillForced, Changes, SameRuns
    <3> QED BY <1>0, <2>1, <2>2, <3>2, TextsStay, SettlesKept
  <2> QED BY <2>1, <2>3, <2>4
<1>17. CASE Archive(c) \/ Restore(c) \/ Delete(c)
  <2>1. Rests(c) /\ Redirect(c)
    BY <1>17, ArchiveEffect, RestoreEffect, DeleteEffect
  <2> QED BY <2>1, SettlesNothing, SettlesRedirected DEF Redirect
<1> QED BY <1>1, <1>2, <1>3, <1>4, <1>5, <1>6, <1>7, <1>8, <1>9, <1>10, <1>11, <1>12, <1>13,
           <1>14, <1>15, <1>16, <1>17 DEF Step

LEMMA SettlesCrash ==
    ASSUME Typed, Typed', SettlesForced, NEW c \in Clients, Crash(c)
    PROVE  SettlesForced'
<1>1. Others(c) /\ Rests(c) /\ SameRuns /\ Lapses(c) /\ UNCHANGED <<item, outdated>>
  BY CrashEffect
<1>2. StillForced
  BY <1>1 DEF StillForced, SameRuns, Lapses
<1>3. RunsTyped' /\ SettlesOne(c)'
  BY <1>1, SettlesNothing DEF Typed
<1> QED BY <1>1, <1>2, <1>3, TextsStay, SettlesKept

LEMMA SettlesCreate ==
    ASSUME Typed, Rows, NEW c \in Clients, Create(c)
    PROVE  SettlesForced'
<1>1. UNCHANGED call /\ ops = 0
  BY CreateEffect DEF Rows, Create
<1>2. \A d \in Clients : call'[d].pc = "idle"
  BY <1>1 DEF Rows, Untouched, Idle
<1> QED BY <1>2 DEF SettlesForced, SettlesOne

LEMMA SettlesBegin ==
    ASSUME Typed, SettlesForced, NEW c \in Clients, NEW op \in Operations, Begin(c, op)
    PROVE  SettlesForced'
<1>1. Others(c) /\ Rests(c) /\ UNCHANGED <<item, runs, outdated>>
  BY BeginEffect
<1> QED BY <1>1, SettlesNothing, SettlesAlone

-----------------------------------------------------------------------------
(* What executes, and what is about to.                                      *)

Owned(r) == runs[r].owner # NoClient
AnyOwned == \E r \in 1..Len(runs) : Owned(r)
Current(r) == item.there /\ item.status # "archived" /\ runs[r].key = item.rev
AllCurrent == \A r \in 1..Len(runs) : Owned(r) => Current(r)
Sees(c) == c \notin outdated /\ AnyOwned =>
              /\ call[c].pc = "act" => call[c].st \in Busy
              /\ call[c].pc = "sync" => call[c].run_st \in Busy
Visible == AllCurrent /\ \A c \in Clients : Sees(c)

LEMMA VisibleIs ==
    ASSUME RunsTyped, anomaly = {}
    PROVE  Visible <=> ExecutingIsCurrent /\ SeesBusy
  BY RunRows DEF Visible, AllCurrent, Sees, AnyOwned, Owned, Current, ExecutingIsCurrent, SeesBusy

\* No run is taken by the step.
NoneTaken ==
    /\ Len(runs) <= Len(runs')
    /\ \A r \in 1..Len(runs') :
          runs'[r].owner # NoClient =>
              r \in 1..Len(runs) /\ Owned(r) /\ runs'[r].key = runs[r].key

LEMMA VisibleKept ==
    ASSUME Visible, NEW c \in Clients, Others(c), NoneTaken, outdated \ {c} \subseteq outdated',
           AnyOwned => item'.there = item.there /\ item'.rev = item.rev
                       /\ (item.status # "archived" => item'.status # "archived"),
           Sees(c)'
    PROVE  Visible'
<1>1. AllCurrent'
  BY DEF Visible, AllCurrent, AnyOwned, Owned, Current, NoneTaken
<1>2. ASSUME NEW d \in Clients PROVE Sees(d)'
  <2>1. CASE d # c
    BY <2>1 DEF Visible, Sees, AnyOwned, Owned, NoneTaken, Others
  <2> QED BY <2>1
<1> QED BY <1>1, <1>2 DEF Visible

LEMMA SeesIdly ==
    ASSUME NEW c \in Clients, call'[c].pc \notin {"act", "sync"}
    PROVE  Sees(c)'
  BY DEF Sees

\* Where nothing is executed, nothing need be seen.
LEMMA VisibleUnowned ==
    ASSUME ~AnyOwned, NoneTaken
    PROVE  Visible'
  BY DEF Visible, AllCurrent, Sees, AnyOwned, Owned, NoneTaken

LEMMA NoneTakenAlone ==
    ASSUME RunsTyped, UNCHANGED runs \/ (SameRuns /\ SameOwners)
    PROVE  NoneTaken
<1>1. Len(runs) \in Nat
  BY RunRows
<1> QED BY <1>1 DEF NoneTaken, Owned, SameRuns, SameOwners

LEMMA NoneTakenByChange ==
    ASSUME RunsTyped, NEW r \in 1..Len(runs), NEW s, NEW o, Changes(r, s, o),
           o \in {NoClient, runs[r].owner}
    PROVE  NoneTaken
<1>1. Len(runs) \in Nat
  BY RunRows
<1>2. ASSUME NEW q \in 1..Len(runs), runs'[q].owner # NoClient PROVE Owned(q)
  BY <1>2 DEF Changes, Owned
<1> QED BY <1>1, <1>2 DEF NoneTaken, Changes, SameRuns

\* Who writes after having read an item that was not busy writes while nothing
\* is executed.
LEMMA WritesUnowned ==
    ASSUME Typed, Visible, NEW c \in Clients, anomaly' = {}, Redirect(c) \/ Record(c),
           call[c].pc = "act", call[c].st \notin Busy, UNCHANGED runs
    PROVE  Visible'
<1>1. c \notin outdated
  BY DEF Redirect, Record, Flag
<1>2. ~AnyOwned /\ NoneTaken
  BY <1>1, NoneTakenAlone DEF Visible, Sees, Typed
<1> QED BY <1>2, VisibleUnowned

\* A step that writes neither the item nor a run, of a call that goes elsewhere.
LEMMA VisibleIdly ==
    ASSUME Typed, Visible, NEW c \in Clients, Others(c), UNCHANGED <<item, runs>>,
           outdated \ {c} \subseteq outdated', call'[c].pc \notin {"act", "sync"}
    PROVE  Visible'
<1>1. NoneTaken /\ Sees(c)'
  BY NoneTakenAlone, SeesIdly DEF Typed
<1> QED BY <1>1, VisibleKept

\* What is executed is the run shown of the item.
LEMMA OwnedIsShown ==
    ASSUME Typed, Rows, Knowing, AllCurrent, NEW r \in 1..Len(runs), Owned(r)
    PROVE  /\ RunOf(item) = r /\ StatusOf(r) = runs[r].status /\ runs[r].status \in Busy
           /\ item.there /\ item.status # "archived"
<1>1. Current(r) /\ runs[r].there /\ runs[r].status \in Busy /\ DOMAIN runs = 1..Len(runs)
  BY RunRows DEF AllCurrent, Owned, Typed, Rows, Owners
<1>2. r # 0 /\ StatusOf(r) = runs[r].status
  BY <1>1, RunRows DEF StatusOf, Typed
<1>3. RunOf(item) = r
  <2>1. CASE item.run # 0
    <3>1. item.run \in 1..Len(runs) /\ runs[item.run].key = item.rev /\ RunOf(item) = item.run
      BY <2>1, RunOfItem, RunRows DEF Typed, ItemTyped, ItemRow, Knowing, ItemKnown, Mine
    <3> QED BY <1>1, <3>1, RunOfRevision DEF Current
  <2>2. CASE item.run = 0
    <3>1. RunOf(item) = KnownRun(item.rev)
      BY <1>1, <2>2, RunOfItem DEF Typed, Current
    <3>2. KnownRun(item.rev) \in 1..Len(runs) /\ runs[KnownRun(item.rev)].key = item.rev
      BY <1>1, KnownRunIsOne DEF Typed, Current
    <3> QED BY <1>1, <3>1, <3>2, RunOfRevision DEF Current
  <2> QED BY <2>1, <2>2
<1> QED BY <1>1, <1>2, <1>3 DEF Current

LEMMA VisibleStep ==
    ASSUME Typed, Typed', Rows, Knowing, Visible, NEW c \in Clients, Step(c),
           anomaly = {}, anomaly' = {}
    PROVE  Visible'
<1>0. outdated \subseteq Clients /\ RunsTyped /\ Knows(c) /\ Sees(c) /\ AllCurrent
  BY DEF Typed, Counted, Knowing, Visible
<1>1. CASE SettleAll(c)
  <2>1. /\ Others(c) /\ Rests(c) /\ SameRuns /\ SameOwners /\ UNCHANGED <<item, outdated>>
    BY <1>1, SettleAllEffect
  <2>2. NoneTaken /\ Sees(c)'
    BY <1>0, <2>1, NoneTakenAlone, SeesIdly DEF Rests
  <2> QED BY <2>1, <2>2, VisibleKept
<1>2. CASE Read(c)
  <2>1. /\ Others(c) /\ UNCHANGED <<item, runs>> /\ outdated \ {c} \subseteq outdated'
        /\ call'[c].pc = "idle" \/ Remembers(c)
    BY <1>2, ReadEffect
  <2>2. CASE call'[c].pc = "idle"
    BY <2>1, <2>2, VisibleIdly
  <2>3. CASE Remembers(c)
    <3>1. ASSUME AnyOwned
          PROVE  /\ call'[c].pc = "act" => call'[c].st \in Busy
                 /\ call'[c].pc = "sync" => call'[c].run_st \in Busy
      <4>1. PICK r \in 1..Len(runs) : Owned(r)
        BY <3>1 DEF AnyOwned
      <4>2. /\ RunOf(item) = r /\ StatusOf(r) = runs[r].status /\ runs[r].status \in Busy
            /\ item.status # "archived"
        BY <1>0, <4>1, OwnedIsShown
      <4>3. call'[c].run_st \in Busy /\ StatusOf(RunOf(item)) # "none"
        BY <2>3, <4>2 DEF Remembers, Busy
      <4>4. ItemStatusOf(runs[r].status) \in Busy
        BY <4>2 DEF ItemStatusOf, Busy, Parked
      <4>5. call'[c].pc = "act" => item.status = ItemStatusOf(runs[r].status) /\ call'[c].st = item.status
        BY <2>3, <4>2, <4>3 DEF Remembers
      <4> QED BY <4>3, <4>4, <4>5
    <3>2. Sees(c)'
      BY <2>1, <3>1 DEF Sees, AnyOwned, Owned
    <3> QED BY <1>0, <2>1, <3>2, NoneTakenAlone, VisibleKept
  <2> QED BY <2>1, <2>2, <2>3
<1>3. CASE Sync(c)
  <2>1. Others(c) /\ UNCHANGED runs /\ call[c].pc = "sync"
    BY <1>3, SyncEffect
  <2>2. CASE Rests(c) /\ UNCHANGED <<item, outdated>>
    BY <2>1, <2>2, VisibleIdly DEF Rests
  <2>3. CASE /\ Reports(c)
             /\ Rests(c) \/ (call'[c].pc = "act" /\ call'[c].st = item'.status)
    <3>1. /\ c \notin outdated /\ outdated' = outdated /\ item'.there = item.there
          /\ item'.rev = item.rev /\ item'.status = ItemStatusOf(call[c].run_st)
          /\ item'.status # "archived"
      BY <2>3 DEF Reports, Record, Flag, SameItem
    <3>2. Sees(c)'
      <4>1. CASE Rests(c)
        BY <4>1, SeesIdly DEF Rests
      <4>2. CASE call'[c].pc = "act" /\ call'[c].st = item'.status
        <5>1. AnyOwned => call[c].run_st \in Busy
          BY <1>0, <2>1, <3>1 DEF Sees
        <5>2. AnyOwned => item'.status \in Busy
          BY <3>1, <5>1 DEF ItemStatusOf, Busy, Parked
        <5>3. AnyOwned' = AnyOwned
          BY <2>1 DEF AnyOwned, Owned
        <5> QED BY <4>2, <5>2, <5>3 DEF Sees
      <4> QED BY <2>3, <4>1, <4>2
    <3> QED BY <1>0, <2>1, <3>1, <3>2, NoneTakenAlone, VisibleKept
  <2> QED BY <1>3, <2>2, <2>3, SyncEffect
<1>4. CASE Refused(c)
  <2>1. Others(c) /\ Rests(c) /\ UNCHANGED <<item, runs, outdated>>
    BY <1>4, RefusedEffect
  <2> QED BY <2>1, VisibleIdly DEF Rests
<1>5. CASE Continue(c)
  <2>1. /\ Others(c) /\ Rests(c) /\ UNCHANGED runs /\ call[c].pc = "act"
        /\ call[c].st \notin Busy
        /\ (UNCHANGED <<item, outdated>> \/ Redirect(c))
    BY <1>5, ContinueEffect DEF CanContinue
  <2> QED BY <2>1, WritesUnowned, VisibleIdly DEF Rests
<1>6. CASE Update(c)
  <2>1. /\ UNCHANGED runs /\ call[c].pc = "act" /\ call[c].st \notin Busy
        /\ (Redirect(c) \/ Record(c))
    BY <1>6, UpdateEffect
  <2> QED BY <2>1, WritesUnowned
<1>7. CASE Start(c)
  <2>1. Others(c) /\ Rests(c) /\ UNCHANGED <<item, runs, outdated>>
    BY <1>7, StartEffect
  <2> QED BY <2>1, VisibleIdly DEF Rests
<1>8. CASE Restart(c)
  <2>1. Others(c) /\ UNCHANGED runs /\ call[c].pc = "act"
    BY <1>8, RestartEffect
  <2>2. CASE CanRestart(call[c].st, call[c].run_st) /\ Redirect(c)
    <3>1. call[c].st \notin Busy
      BY <2>2 DEF CanRestart, Busy
    <3> QED BY <2>1, <2>2, <3>1, WritesUnowned
  <2>3. CASE /\ Continues(c) /\ call'[c].pc = "act" /\ UNCHANGED <<item, outdated>>
    <3>1. Sees(c)'
      BY <1>0, <2>1, <2>3 DEF Sees, AnyOwned, Owned, Continues
    <3> QED BY <1>0, <2>1, <2>3, <3>1, NoneTakenAlone, VisibleKept
  <2> QED BY <1>8, <2>2, <2>3, RestartEffect
<1>9. CASE MarkStarted(c)
  <2>1. /\ Others(c) /\ UNCHANGED runs /\ call[c].pc = "act"
        /\ (Rests(c) \/ call'[c].pc = "create")
        /\ (UNCHANGED <<item, outdated>> \/ Redirect(c))
        /\ CanLaunch(call[c].st)
    BY <1>9, MarkStartedEffect
  <2>2. call[c].st \notin Busy /\ call'[c].pc \notin {"act", "sync"}
    BY <2>1 DEF CanLaunch, Rests
  <2> QED BY <2>1, <2>2, WritesUnowned, VisibleIdly
<1>10. CASE CreateRun(c)
  <2>1. /\ Others(c) /\ UNCHANGED item /\ call'[c].pc \notin {"act", "sync"}
        /\ (UNCHANGED <<runs, outdated>> \/ (Adds(c) /\ Record(c)))
    BY <1>10, CreateRunEffect DEF Rests
  <2>2. CASE UNCHANGED <<runs, outdated>>
    BY <2>1, <2>2, VisibleIdly
  <2>3. CASE Adds(c) /\ Record(c)
    <3>1. Len(runs) \in Nat /\ outdated' = outdated
      BY <1>0, <2>3, RunRows DEF Record
    <3>2. NoneTaken
      BY <2>3, <3>1 DEF NoneTaken, Adds, Owned
    <3> QED BY <2>1, <3>1, <3>2, SeesIdly, VisibleKept
  <2> QED BY <2>1, <2>2, <2>3
<1>11. CASE Lease(c)
  <2> DEFINE r == call[c].run
  <2>1. /\ Others(c) /\ UNCHANGED item /\ r \in 1..Len(runs) /\ call[c].pc = "lease"
        /\ call'[c].pc \notin {"act", "sync"}
    BY <1>11, LeaseEffect DEF Rests
  <2>2. \/ UNCHANGED <<runs, outdated>>
        \/ /\ \E s \in Terminal : Changes(r, s, NoClient)
           /\ outdated' = outdated \/ Record(c)
        \/ Changes(r, "running", c) /\ Execution(c)
    BY <1>11, LeaseEffect DEF Terminal
  <2>3. CASE UNCHANGED <<runs, outdated>>
    BY <2>1, <2>3, VisibleIdly
  <2>4. CASE /\ \E s \in Terminal : Changes(r, s, NoClient)
             /\ outdated' = outdated \/ Record(c)
    <3>1. PICK s \in Terminal : Changes(r, s, NoClient)
      BY <2>4
    <3> HIDE DEF r
    <3>2. NoneTaken
      BY <1>0, <2>1, <3>1, NoneTakenByChange
    <3>3. outdated' = outdated
      BY <2>4 DEF Record
    <3> QED BY <2>1, <3>2, <3>3, SeesIdly, VisibleKept
  <2>5. CASE Changes(r, "running", c) /\ Execution(c)
    <3>1. c \notin outdated /\ item.status # "archived" /\ outdated' = Clients \ {c}
      BY <2>5 DEF Execution
    <3>2. item.there /\ runs[r].key = item.rev /\ RunsTyped' /\ Len(runs') = Len(runs)
      BY <1>0, <2>1, <2>5, <3>1, RunRows DEF Knows, Mine, Seen, SeenPcs, Typed, Changes, SameRuns
    <3>3. AllCurrent'
      <4>1. ASSUME NEW q \in 1..Len(runs), runs'[q].owner # NoClient
            PROVE  item.there /\ item.status # "archived" /\ runs'[q].key = item.rev
        <5>1. CASE q = r
          BY <2>1, <2>5, <3>1, <3>2, <5>1 DEF Changes, SameRuns
        <5>2. CASE q # r
          BY <1>0, <2>5, <4>1, <5>2 DEF Changes, AllCurrent, Owned, Current
        <5> QED BY <5>1, <5>2
      <4> QED BY <2>1, <3>2, <4>1 DEF AllCurrent, Owned, Current
    <3>4. \A d \in Clients : Sees(d)'
      BY <2>1, <3>1 DEF Sees
    <3> QED BY <3>3, <3>4 DEF Visible
  <2> QED BY <2>2, <2>3, <2>4, <2>5
<1>12. CASE Execute(c)
  <2> DEFINE r == call[c].run
  <2>1. /\ Others(c) /\ UNCHANGED <<item, outdated>> /\ r \in 1..Len(runs)
        /\ call'[c].pc \notin {"act", "sync"}
        /\ \/ UNCHANGED runs
           \/ \E s \in Terminal \cup Parked : Changes(r, s, NoClient)
    BY <1>12, ExecuteEffect DEF Rests
  <2>2. CASE UNCHANGED runs
    BY <2>1, <2>2, VisibleIdly
  <2>3. CASE \E s \in Terminal \cup Parked : Changes(r, s, NoClient)
    <3>1. PICK s \in Terminal \cup Parked : Changes(r, s, NoClient)
      BY <2>3
    <3> HIDE DEF r
    <3>2. NoneTaken
      BY <1>0, <2>1, <3>1, NoneTakenByChange
    <3> QED BY <2>1, <3>2, SeesIdly, VisibleKept
  <2> QED BY <2>1, <2>2, <2>3
<1>13. CASE RecordResult(c)
  <2>1. Others(c) /\ UNCHANGED runs /\ Rests(c)
        /\ (UNCHANGED <<item, outdated>> \/ Reports(c))
    BY <1>13, RecordResultEffect
  <2>2. CASE UNCHANGED <<item, outdated>>
    BY <2>1, <2>2, VisibleIdly DEF Rests
  <2>3. CASE Reports(c)
    <3>1. /\ outdated' = outdated /\ item'.there = item.there /\ item'.rev = item.rev
          /\ item'.status # "archived"
      BY <2>3 DEF Reports, Record, SameItem
    <3>2. Sees(c)'
      BY <2>1, SeesIdly DEF Rests
    <3> QED BY <1>0, <2>1, <3>1, <3>2, NoneTakenAlone, VisibleKept
  <2> QED BY <2>1, <2>2, <2>3
<1>14. CASE Settle(c)
  <2>1. /\ Others(c) /\ UNCHANGED <<item, runs, outdated>> /\ call'[c].pc \notin {"act", "sync"}
    BY <1>14, SettleEffect DEF Rests
  <2> QED BY <2>1, VisibleIdly
<1>15. CASE Reconcile(c)
  <2>1. /\ Others(c) /\ UNCHANGED <<item, runs, outdated>> /\ call'[c].pc \notin {"act", "sync"}
    BY <1>15, ReconcileEffect
  <2> QED BY <2>1, VisibleIdly
<1>16. CASE Cancel(c)
  <2> DEFINE r == call[c].run
  <2>1. /\ Others(c) /\ UNCHANGED <<item, outdated>> /\ r \in 1..Len(runs)
        /\ call'[c].pc \notin {"act", "sync"}
        /\ \/ UNCHANGED runs
           \/ \E t \in RunStatus : Changes(r, t, runs[r].owner)
    BY <1>16, CancelEffect DEF Rests
  <2>2. CASE UNCHANGED runs
    BY <2>1, <2>2, VisibleIdly
  <2>3. CASE \E t \in RunStatus : Changes(r, t, runs[r].owner)
    <3>1. PICK t \in RunStatus : Changes(r, t, runs[r].owner)
      BY <2>3
    <3> HIDE DEF r
    <3>2. NoneTaken
      BY <1>0, <2>1, <3>1, NoneTakenByChange
    <3> QED BY <2>1, <3>2, SeesIdly, VisibleKept
  <2> QED BY <2>1, <2>2, <2>3
<1>17. CASE Archive(c) \/ Restore(c)
  <2>1. /\ UNCHANGED runs /\ call[c].pc = "act" /\ Redirect(c)
        /\ (call[c].st \notin Busy \/ call[c].st = "archived")
    BY <1>17, ArchiveEffect, RestoreEffect
  <2>2. call[c].st \notin Busy
    BY <2>1 DEF Busy
  <2> QED BY <2>1, <2>2, WritesUnowned
<1>18. CASE Delete(c)
  <2>1. Forgets /\ RunsTyped'
    BY <1>18, DeleteEffect DEF Forgets
  <2>2. \A q \in 1..Len(runs') : runs'[q].owner = NoClient
    BY <2>1 DEF Forgets
  <2> QED BY <2>2 DEF Visible, AllCurrent, Sees, AnyOwned, Owned
<1> QED BY <1>1, <1>2, <1>3, <1>4, <1>5, <1>6, <1>7, <1>8, <1>9, <1>10, <1>11, <1>12, <1>13,
           <1>14, <1>15, <1>16, <1>17, <1>18 DEF Step

LEMMA VisibleCrash ==
    ASSUME Typed, Visible, NEW c \in Clients, Crash(c)
    PROVE  Visible'
<1>1. Others(c) /\ Rests(c) /\ SameRuns /\ Lapses(c) /\ UNCHANGED <<item, outdated>>
  BY CrashEffect
<1>2. Len(runs) \in Nat
  BY RunRows DEF Typed
<1>3. NoneTaken
  BY <1>1, <1>2 DEF NoneTaken, SameRuns, Lapses, Owned
<1>4. Sees(c)'
  BY <1>1, SeesIdly DEF Rests
<1> QED BY <1>1, <1>3, <1>4, VisibleKept

LEMMA VisibleCreate ==
    ASSUME Typed, Rows, NEW c \in Clients, Create(c)
    PROVE  Visible'
<1>1. UNCHANGED runs /\ runs = <<>> /\ ops = 0
  BY CreateEffect DEF Rows, Create
<1>2. 1..Len(runs') = {}
  BY <1>1
<1> QED BY <1>2 DEF Visible, AllCurrent, Sees, AnyOwned

LEMMA VisibleBegin ==
    ASSUME Typed, Visible, NEW c \in Clients, NEW op \in Operations, Begin(c, op)
    PROVE  Visible'
<1>1. Others(c) /\ Rests(c) /\ UNCHANGED <<item, runs, outdated>>
  BY BeginEffect
<1> QED BY <1>1, VisibleIdly DEF Rests

\* A busy item without a run.
Pending == /\ item.there /\ item.status \in Busy /\ item.run = 0
           /\ \A r \in 1..Len(runs) : runs[r].key # item.rev

LEMMA StartedIs ==
    ASSUME RunsTyped
    PROVE  Started <=> (Pending => \E c \in Clients : Launching(c))
  BY RunRows DEF Started, Pending

LEMMA StartedWill ==
    ASSUME RunsTyped', Pending' => \E c \in Clients : Launching(c)'
    PROVE  Started'
<1>1. DOMAIN runs' = 1..Len(runs')
  BY DEF RunsTyped
<1> QED BY <1>1 DEF Started, Pending

LEMMA StartedKept ==
    ASSUME Typed, RunsTyped', Started, NEW c \in Clients, Others(c), Pending' => Pending,
           outdated' \subseteq outdated, Launching(c) => Launching(c)'
    PROVE  Started'
<1>1. ASSUME Pending' PROVE \E d \in Clients : Launching(d)'
  <2>1. PICK d \in Clients : Launching(d)
    BY <1>1, StartedIs DEF Typed
  <2>2. CASE d = c
    BY <2>1, <2>2
  <2>3. CASE d # c
    BY <2>1, <2>3 DEF Launching, Others
  <2> QED BY <2>2, <2>3
<1> QED BY <1>1, StartedWill

LEMMA PendingAlone ==
    ASSUME Typed, UNCHANGED item, SameTexts, Len(runs') = Len(runs)
    PROVE  Pending' => Pending
  BY DEF Pending, SameTexts

\* A step of a call that was not launching.
LEMMA StartedIdly ==
    ASSUME Typed, RunsTyped', Started, NEW c \in Clients, Others(c), UNCHANGED item, SameTexts,
           Len(runs') = Len(runs), outdated' \subseteq outdated,
           call[c].pc \notin {"create", "record"}
    PROVE  Started'
<1>1. ~Launching(c)
  BY DEF Launching
<1> QED BY <1>1, PendingAlone, StartedKept

LEMMA StartedStep ==
    ASSUME Typed, Typed', Rows, Knowing, Started, NEW c \in Clients, Step(c),
           anomaly = {}, anomaly' = {}
    PROVE  Started'
<1>0. outdated \subseteq Clients /\ RunsTyped /\ RunsTyped' /\ Knows(c)
  BY DEF Typed, Counted, Knowing
<1>1. CASE SettleAll(c)
  <2>1. Others(c) /\ SameRuns /\ UNCHANGED <<item, outdated>> /\ call[c].pc = "read"
    BY <1>1, SettleAllEffect
  <2> QED BY <1>0, <2>1, TextsStay, StartedIdly
<1>2. CASE Read(c)
  <2>1. Others(c) /\ UNCHANGED <<item, runs>> /\ outdated' \subseteq outdated /\ call[c].pc = "read"
    BY <1>2, ReadEffect
  <2> QED BY <1>0, <2>1, TextsStay, StartedIdly
<1>3. CASE Sync(c)
  <2>1. Others(c) /\ UNCHANGED runs /\ call[c].pc = "sync" /\ call[c].run # 0
        /\ (UNCHANGED <<item, outdated>> \/ item'.run = call[c].run)
    BY <1>3, SyncEffect
  <2>2. CASE UNCHANGED <<item, outdated>>
    BY <1>0, <2>1, <2>2, TextsStay, StartedIdly
  <2>3. CASE item'.run = call[c].run
    BY <1>0, <2>1, <2>3, StartedWill DEF Pending
  <2> QED BY <2>1, <2>2, <2>3
<1>4. CASE Refused(c)
  <2>1. Others(c) /\ UNCHANGED <<item, runs, outdated>> /\ call[c].pc = "act"
    BY <1>4, RefusedEffect
  <2> QED BY <1>0, <2>1, TextsStay, StartedIdly
<1>5. CASE Continue(c)
  <2>1. Others(c) /\ UNCHANGED runs /\ call[c].pc = "act"
        /\ (UNCHANGED <<item, outdated>> \/ item'.status = "draft")
    BY <1>5, ContinueEffect
  <2>2. CASE UNCHANGED <<item, outdated>>
    BY <1>0, <2>1, <2>2, TextsStay, StartedIdly
  <2>3. CASE item'.status = "draft"
    BY <1>0, <2>3, StartedWill DEF Pending, Busy
  <2> QED BY <2>1, <2>2, <2>3
<1>6. CASE Update(c)
  <2>1. Others(c) /\ UNCHANGED runs /\ call[c].pc = "act" /\ item'.there = item.there
    BY <1>6, UpdateEffect
  <2>2. CASE item'.status = "draft"
    BY <1>0, <2>2, StartedWill DEF Pending, Busy
  <2>3. CASE /\ item'.rev = call[c].rev /\ item'.status = item.status
             /\ item'.run = item.run /\ Record(c)
    <3>1. c \notin outdated /\ outdated' = outdated
      BY <2>3 DEF Record, Flag
    <3>2. item'.rev = item.rev
      BY <1>0, <2>1, <2>3, <3>1 DEF Knows, Seen, SeenPcs
    <3>3. (Pending' => Pending) /\ ~Launching(c)
      BY <2>1, <2>3, <3>2 DEF Pending, Launching
    <3> QED BY <1>0, <2>1, <3>1, <3>3, StartedKept
  <2> QED BY <1>6, <2>2, <2>3, UpdateEffect
<1>7. CASE Start(c)
  <2>1. Others(c) /\ UNCHANGED <<item, runs, outdated>> /\ call[c].pc = "act"
    BY <1>7, StartEffect
  <2> QED BY <1>0, <2>1, TextsStay, StartedIdly
<1>8. CASE Restart(c)
  <2>1. Others(c) /\ UNCHANGED runs /\ call[c].pc = "act"
        /\ \/ item'.there = item.there /\ (item.there => item'.status = "draft")
           \/ UNCHANGED <<item, outdated>>
    BY <1>8, RestartEffect
  <2>2. CASE UNCHANGED <<item, outdated>>
    BY <1>0, <2>1, <2>2, TextsStay, StartedIdly
  <2>3. CASE item'.there = item.there /\ (item.there => item'.status = "draft")
    BY <1>0, <2>3, StartedWill DEF Pending, Busy
  <2> QED BY <2>1, <2>2, <2>3
<1>9. CASE MarkStarted(c)
  <2>1. Others(c) /\ UNCHANGED runs /\ call[c].pc = "act"
        /\ (UNCHANGED <<item, outdated>> \/ (call'[c].pc = "create" /\ Redirect(c)))
    BY <1>9, MarkStartedEffect
  <2>2. CASE UNCHANGED <<item, outdated>>
    BY <1>0, <2>1, <2>2, TextsStay, StartedIdly
  <2>3. CASE call'[c].pc = "create" /\ Redirect(c)
    <3>1. Launching(c)'
      BY <2>3 DEF Launching, Redirect
    <3> QED BY <1>0, <3>1, StartedWill
  <2> QED BY <2>1, <2>2, <2>3
<1>10. CASE CreateRun(c)
  <2>1. Others(c) /\ UNCHANGED item /\ call[c].pc = "create" /\ Seen(c)
        /\ \/ call'[c].pc = "record" /\ call'[c].run = 0 /\ UNCHANGED <<runs, outdated>>
           \/ KnownRun(call[c].rev) # 0 /\ UNCHANGED <<runs, outdated>>
           \/ ~item.there
           \/ Adds(c) /\ Record(c)
    BY <1>10, CreateRunEffect DEF Seen, SeenPcs
  <2>2. CASE call'[c].pc = "record" /\ call'[c].run = 0 /\ UNCHANGED <<runs, outdated>>
    <3>1. Launching(c) => Launching(c)'
      BY <2>2 DEF Launching
    <3> QED BY <1>0, <2>1, <2>2, <3>1, TextsStay, PendingAlone, StartedKept
  <2>3. CASE KnownRun(call[c].rev) # 0 /\ UNCHANGED <<runs, outdated>>
    <3>1. CASE c \in outdated
      <4>1. ~Launching(c)
        BY <3>1 DEF Launching
      <4> QED BY <1>0, <2>1, <2>3, <4>1, TextsStay, PendingAlone, StartedKept
    <3>2. CASE c \notin outdated
      <4>1. call[c].rev = item.rev
        BY <1>0, <2>1, <3>2 DEF Knows
      <4>2. \E r \in 1..Len(runs) : runs[r].key = item.rev
        BY <1>0, <2>3, <4>1, KnownRunIsOne
      <4>3. ~Pending'
        BY <2>1, <2>3, <4>2 DEF Pending
      <4> QED BY <1>0, <4>3, StartedWill
    <3> QED BY <3>1, <3>2
  <2>4. CASE ~item.there
    BY <1>0, <2>1, <2>4, StartedWill DEF Pending
  <2>5. CASE Adds(c) /\ Record(c)
    <3>1. c \notin outdated
      BY <2>5 DEF Record, Flag
    <3>2. call[c].rev = item.rev /\ Len(runs) \in Nat
      BY <1>0, <2>1, <3>1, RunRows DEF Knows
    <3>3. ~Pending'
      BY <2>1, <2>5, <3>2 DEF Pending, Adds
    <3> QED BY <1>0, <3>3, StartedWill
  <2> QED BY <2>1, <2>2, <2>3, <2>4, <2>5
<1>11. CASE Lease(c)
  <2> DEFINE r == call[c].run
  <2>1. /\ Others(c) /\ UNCHANGED item /\ r \in 1..Len(runs) /\ call[c].pc = "lease"
        /\ SameRuns \/ UNCHANGED runs
        /\ outdated' = outdated \/ Record(c) \/ Execution(c)
    BY <1>11, LeaseEffect DEF Changes
  <2>2. SameTexts /\ Len(runs') = Len(runs)
    BY <2>1, TextsStay
  <2>3. CASE outdated' = outdated
    BY <1>0, <2>1, <2>2, <2>3, StartedIdly
  <2>4. CASE Record(c)
    BY <1>0, <2>1, <2>2, <2>4, StartedIdly DEF Record
  <2>5. CASE Execution(c)
    <3>1. c \notin outdated
      BY <2>5 DEF Execution
    <3>2. runs[r].key = item.rev
      BY <1>0, <2>1, <3>1, RunRows DEF Knows, Mine, Seen, SeenPcs
    <3>3. ~Pending'
      BY <2>1, <2>2, <3>2 DEF Pending, SameTexts
    <3> QED BY <1>0, <3>3, StartedWill
  <2> QED BY <2>1, <2>3, <2>4, <2>5
<1>12. CASE Execute(c)
  <2>1. /\ Others(c) /\ UNCHANGED <<item, outdated>> /\ call[c].pc = "execute"
        /\ SameRuns \/ UNCHANGED runs
    BY <1>12, ExecuteEffect DEF Changes
  <2> QED BY <1>0, <2>1, TextsStay, StartedIdly
<1>13. CASE RecordResult(c)
  <2>1. /\ Others(c) /\ UNCHANGED runs /\ call[c].pc = "record"
        /\ \/ UNCHANGED <<item, outdated>> /\ (~item.there \/ call[c].run # 0)
           \/ /\ Reports(c)
              /\ item'.run = IF call[c].run = 0 THEN item.run ELSE call[c].run
        /\ call[c].run = 0 => call[c].run_st = "failed"
    BY <1>13, RecordResultEffect
  <2>2. CASE UNCHANGED <<item, outdated>> /\ ~item.there
    BY <1>0, <2>2, StartedWill DEF Pending
  <2>3. CASE UNCHANGED <<item, outdated>> /\ call[c].run # 0
    <3>1. ~Launching(c)
      BY <2>1, <2>3 DEF Launching
    <3> QED BY <1>0, <2>1, <2>3, <3>1, TextsStay, PendingAlone, StartedKept
  <2>4. CASE call[c].run # 0 /\ item'.run = call[c].run
    <3>1. ~Pending'
      BY <2>4 DEF Pending
    <3> QED BY <1>0, <3>1, StartedWill
  <2>5. CASE Reports(c) /\ call[c].run = 0
    <3>1. call[c].run_st = "failed"
      BY <2>1, <2>5
    <3>2. item'.status = ItemStatusOf(call[c].run_st)
      BY <2>5 DEF Reports
    <3>3. ItemStatusOf("failed") = "failed"
      BY DEF ItemStatusOf, Parked
    <3>4. item'.status = "failed"
      BY <3>1, <3>2, <3>3
    <3>5. ~Pending'
      BY <3>4 DEF Pending, Busy
    <3> QED BY <1>0, <3>5, StartedWill
  <2> QED BY <2>1, <2>2, <2>3, <2>4, <2>5
<1>14. CASE Settle(c)
  <2>1. Others(c) /\ UNCHANGED <<item, runs, outdated>> /\ call[c].pc = "act"
    BY <1>14, SettleEffect
  <2> QED BY <1>0, <2>1, TextsStay, StartedIdly
<1>15. CASE Reconcile(c)
  <2>1. Others(c) /\ UNCHANGED <<item, runs, outdated>> /\ call[c].pc = "act"
    BY <1>15, ReconcileEffect
  <2> QED BY <1>0, <2>1, TextsStay, StartedIdly
<1>16. CASE Cancel(c)
  <2>1. /\ Others(c) /\ UNCHANGED <<item, outdated>> /\ call[c].pc = "act"
        /\ SameRuns \/ UNCHANGED runs
    BY <1>16, CancelEffect DEF Changes
  <2> QED BY <1>0, <2>1, TextsStay, StartedIdly
<1>17. CASE Archive(c) \/ Restore(c) \/ Delete(c)
  <2>1. item'.status \notin Busy \/ ~item'.there
    BY <1>17, ArchiveEffect, RestoreEffect, DeleteEffect DEF Busy
  <2> QED BY <1>0, <2>1, StartedWill DEF Pending
<1> QED BY <1>1, <1>2, <1>3, <1>4, <1>5, <1>6, <1>7, <1>8, <1>9, <1>10, <1>11, <1>12, <1>13,
           <1>14, <1>15, <1>16, <1>17 DEF Step

LEMMA StartedCrash ==
    ASSUME Typed, Typed', Started, NEW c \in Clients, Crash(c), anomaly' = {}
    PROVE  Started'
<1>1. /\ Others(c) /\ SameRuns /\ UNCHANGED <<item, outdated>> /\ RunsTyped'
      /\ ~ (call[c].pc = "create" \/ (call[c].pc = "record" /\ call[c].run = 0))
  BY CrashEffect DEF Typed
<1>2. ~Launching(c)
  BY <1>1 DEF Launching
<1> QED BY <1>1, <1>2, TextsStay, PendingAlone, StartedKept

LEMMA StartedCreate ==
    ASSUME Typed, Typed', Rows, NEW c \in Clients, Create(c)
    PROVE  Started'
<1>1. item'.status = "draft" /\ RunsTyped'
  BY CreateEffect DEF Rows, Typed
<1> QED BY <1>1, StartedWill DEF Pending, Busy

LEMMA StartedBegin ==
    ASSUME Typed, Typed', Started, NEW c \in Clients, NEW op \in Operations, Begin(c, op)
    PROVE  Started'
<1>1. Others(c) /\ UNCHANGED <<item, runs, outdated>> /\ RunsTyped' /\ call[c].pc = "idle"
  BY BeginEffect DEF Typed, Begin
<1> QED BY <1>1, TextsStay, StartedIdly

-----------------------------------------------------------------------------
(* The invariant, and what it says.                                          *)

IndInv ==
    /\ Typed /\ Rows
    /\ "overtaken" \notin anomaly => Knowing /\ SettlesForced
    /\ anomaly = {} => Visible /\ Started

LEMMA IndInvIs == IndInv <=> IInv
<1>1. ASSUME Typed, anomaly = {} PROVE Visible <=> ExecutingIsCurrent /\ SeesBusy
  BY <1>1, VisibleIs DEF Typed
<1>2. anomaly # {} => ExecutingIsCurrent
  BY DEF ExecutingIsCurrent
<1> QED BY <1>1, <1>2 DEF IndInv, IInv, Rows

LEMMA InitInv == Init => IndInv
<1> SUFFICES ASSUME Init PROVE IndInv
  OBVIOUS
<1>1. /\ item = [there |-> FALSE, status |-> "draft", rev |-> 1, run |-> 0,
                 hidden |-> FALSE, text |-> 0, shelved |-> "none"]
      /\ turns = <<>> /\ links = <<>> /\ runs = <<>> /\ call = [d \in Clients |-> Idle]
      /\ ops = 0 /\ crashes = 0 /\ outdated = {} /\ anomaly = {}
  BY DEF Init
<1>2. 0 \in 0..MaxOps /\ 0 \in 0..MaxCrashes
  BY BoundsAssumption
<1>3. item \in ItemRow
  BY <1>1, <1>2 DEF ItemRow, ItemStatus
<1>4. ItemTyped
  BY <1>1, <1>3 DEF ItemTyped
<1>5. /\ runs \in Seq(RunRow) /\ turns \in Seq(TurnRow) /\ links \in Seq(Nat \ {0})
      /\ Len(turns) = 0 /\ Len(links) = 0 /\ Len(runs) = 0
  BY <1>1, EmptySeq
<1>6. RunsTyped /\ TurnsTyped /\ LinksTyped
  BY <1>5 DEF RunsTyped, TurnsTyped, LinksTyped
<1>7. \A d \in Clients : call[d] = Idle /\ call[d].pc = "idle" /\ call[d] \in Short
  BY <1>1, IdleShape
<1>8. CallsTyped
  BY <1>1, <1>7, IdleShape DEF CallsTyped, Carries, SeenPcs
<1>9. Shelving
  BY <1>1, <1>7 DEF Shelving, Seen, SeenPcs
<1>10. Counted
  BY <1>1, <1>2 DEF Counted
<1>11. DOMAIN runs = {} /\ DOMAIN turns = {} /\ 1..Len(runs) = {}
  BY <1>1
<1>12. Rows
  BY <1>1, <1>7, <1>11 DEF Rows, Untouched, Together, Owners, Executes, OneRunPerRevision
<1>13. Knowing /\ SettlesForced
  BY <1>1, <1>7, <1>11 DEF Knowing, ItemKnown, KeysKnown, TurnsKnown, Knows, Seen, SeenPcs,
                           SettlesForced, SettlesOne
<1>14. Visible /\ Started
  BY <1>1, <1>11 DEF Visible, AllCurrent, Sees, AnyOwned, Started
<1> QED BY <1>4, <1>6, <1>8, <1>9, <1>10, <1>12, <1>13, <1>14 DEF IndInv, Typed

\* What clients did on outdated knowledge is not forgotten.
LEMMA AnomaliesStay ==
    ASSUME IndInv, NEW c \in Clients,
           Create(c) \/ (\E op \in Operations : Begin(c, op)) \/ Step(c) \/ Crash(c)
    PROVE  anomaly \subseteq anomaly'
<1>1. ASSUME Redirect(c) \/ Record(c) \/ Quiet \/ Execution(c) PROVE anomaly \subseteq anomaly'
  BY <1>1 DEF Redirect, Record, Quiet, Flag, Execution
<1>2. CASE Create(c) \/ (\E op \in Operations : Begin(c, op))
  BY <1>2 DEF Create, Begin
<1>3. CASE Crash(c)
  BY <1>3, CrashEffect DEF IndInv
<1>4. CASE SettleAll(c) \/ Read(c)
  BY <1>4 DEF SettleAll, Read
<1>5. CASE Sync(c) \/ Refused(c) \/ Continue(c) \/ Update(c) \/ Start(c)
  BY <1>1, <1>5 DEF Sync, Refused, Continue, Update, Start
<1>6. CASE Restart(c) \/ MarkStarted(c) \/ CreateRun(c)
  BY <1>1, <1>6 DEF Restart, MarkStarted, CreateRun
<1>7. CASE Lease(c)
  BY <1>1, <1>7, LeaseEffect DEF IndInv
<1>8. CASE Execute(c) \/ RecordResult(c) \/ Settle(c) \/ Reconcile(c) \/ Cancel(c)
  BY <1>1, <1>8 DEF Execute, RecordResult, Settle, Reconcile, Cancel
<1>9. CASE Archive(c) \/ Restore(c) \/ Delete(c)
  BY <1>1, <1>9 DEF Archive, Restore, Delete
<1> QED BY <1>2, <1>3, <1>4, <1>5, <1>6, <1>7, <1>8, <1>9 DEF Step

LEMMA StepTyped ==
    ASSUME Typed, NEW c \in Clients, Step(c)
    PROVE  Typed'
  BY SettleAllEffect, ReadEffect, SyncEffect, RefusedEffect, ContinueEffect, UpdateEffect,
     StartEffect, RestartEffect, MarkStartedEffect, CreateRunEffect, LeaseEffect, ExecuteEffect,
     RecordResultEffect, SettleEffect, ReconcileEffect, CancelEffect, ArchiveEffect,
     RestoreEffect, DeleteEffect DEF Step

LEMMA NextInv ==
    ASSUME IndInv, Next
    PROVE  IndInv'
<1>1. PICK c \in Clients :
         Create(c) \/ (\E op \in Operations : Begin(c, op)) \/ Step(c) \/ Crash(c)
  BY DEF Next
<1>2. anomaly \subseteq anomaly'
  BY <1>1, AnomaliesStay
<1>3. /\ "overtaken" \notin anomaly' => "overtaken" \notin anomaly
      /\ anomaly' = {} => anomaly = {} /\ "overtaken" \notin anomaly'
  BY <1>2
<1>4. Typed /\ Rows /\ Untouched
  BY DEF IndInv, Rows
<1>5. CASE Create(c)
  <2>1. Typed'
    BY <1>4, <1>5, CreateEffect
  <2> QED BY <1>4, <1>5, <2>1, RowsCreate, KnowingCreate, SettlesCreate, VisibleCreate,
             StartedCreate DEF IndInv
<1>6. CASE \E op \in Operations : Begin(c, op)
  <2>1. PICK op \in Operations : Begin(c, op)
    BY <1>6
  <2>2. Typed' /\ Rows'
    BY <1>4, <2>1, BeginEffect, RowsBegin
  <2>3. "overtaken" \notin anomaly' => Knowing' /\ SettlesForced'
    BY <1>3, <1>4, <2>1, KnowingBegin, SettlesBegin DEF IndInv
  <2>4. anomaly' = {} => Visible' /\ Started'
    BY <1>3, <1>4, <2>1, <2>2, VisibleBegin, StartedBegin DEF IndInv
  <2> QED BY <2>2, <2>3, <2>4 DEF IndInv
<1>7. CASE Step(c)
  <2>1. Typed' /\ Rows'
    BY <1>4, <1>7, StepTyped, RowsStep
  <2>2. "overtaken" \notin anomaly' => Knowing' /\ SettlesForced'
    BY <1>3, <1>4, <1>7, <2>1, KnowingStep, SettlesStep DEF IndInv
  <2>3. anomaly' = {} => Visible' /\ Started'
    BY <1>3, <1>4, <1>7, <2>1, VisibleStep, StartedStep DEF IndInv
  <2> QED BY <2>1, <2>2, <2>3 DEF IndInv
<1>8. CASE Crash(c)
  <2>1. Typed' /\ Rows'
    BY <1>4, <1>8, CrashEffect, RowsCrash
  <2>2. "overtaken" \notin anomaly' => Knowing' /\ SettlesForced'
    BY <1>3, <1>4, <1>8, <2>1, KnowingCrash, SettlesCrash DEF IndInv
  <2>3. anomaly' = {} => Visible' /\ Started'
    BY <1>3, <1>4, <1>8, <2>1, VisibleCrash, StartedCrash DEF IndInv
  <2> QED BY <2>1, <2>2, <2>3 DEF IndInv
<1> QED BY <1>1, <1>5, <1>6, <1>7, <1>8

LEMMA StutterInv ==
    ASSUME IndInv, UNCHANGED vars
    PROVE  IndInv'
<1>1. /\ Typed' <=> Typed
      /\ Rows' <=> Rows
  BY DEF vars, Typed, ItemTyped, RunsTyped, TurnsTyped, LinksTyped, CallsTyped, Carries, Shelving,
         Seen, CanReturn, Counted, Rows, Untouched, Together, Owners, Executes, OneRunPerRevision
<1>2. /\ Knowing' <=> Knowing
      /\ SettlesForced' <=> SettlesForced
  BY DEF vars, Knowing, ItemKnown, KeysKnown, TurnsKnown, Knows, Mine, Seen, SettlesForced,
         SettlesOne
<1>3. /\ Visible' <=> Visible
      /\ Started' <=> Started
  BY DEF vars, Visible, AllCurrent, Sees, AnyOwned, Owned, Current, Started, Launching
<1> QED BY <1>1, <1>2, <1>3 DEF vars, IndInv

LEMMA Inductive == Spec => []IndInv
<1>1. IndInv /\ [Next]_vars => IndInv'
  BY NextInv, StutterInv
<1> QED BY InitInv, <1>1, PTL DEF Spec

-----------------------------------------------------------------------------
(* What holds of every reachable state.                                      *)

\* Rows, calls and counters keep their types: what an item, a turn or a link
\* names is a run that was created (the foreign keys of work_item_runs).
THEOREM TypeCorrect == Spec => []TypeOK
<1>1. IndInv => TypeOK
  <2> SUFFICES ASSUME IndInv PROVE TypeOK
    OBVIOUS
  <2>1. Typed
    BY DEF IndInv
  <2>2. /\ Len(runs) \in Nat /\ DOMAIN runs = 1..Len(runs)
        /\ \A r \in 1..Len(runs) : runs[r] \in RunRow
    BY <2>1, RunRows DEF Typed
  <2>3. item \in [there : BOOLEAN, status : ItemStatus, rev : Nat \ {0},
                  run : 0..Len(runs), hidden : BOOLEAN, text : 0..MaxOps,
                  shelved : ItemStatus \cup {"none"}]
    BY <2>1, <2>2 DEF Typed, ItemTyped, ItemRow
  <2>4. \A i \in DOMAIN turns : turns[i] \in [rev : Nat \ {0}, run : 0..Len(runs)]
    <3>1. DOMAIN turns = 1..Len(turns)
          /\ \A i \in 1..Len(turns) : turns[i] \in TurnRow /\ turns[i].run <= Len(runs)
      BY <2>1 DEF Typed, TurnsTyped
    <3>2. \A t \in TurnRow : t.run <= Len(runs) => t \in [rev : Nat \ {0}, run : 0..Len(runs)]
      BY <2>2 DEF TurnRow
    <3> QED BY <3>1, <3>2
  <2>5. \A i \in DOMAIN links : links[i] \in DOMAIN runs
    BY <2>1, <2>2 DEF Typed, LinksTyped
  <2>6. \A r \in DOMAIN runs :
           runs[r] \in [there : BOOLEAN, key : Nat \ {0}, text : 0..MaxOps,
                        status : RunStatus, owner : Clients \cup {NoClient}]
    BY <2>2 DEF RunRow
  <2> QED BY <2>1, <2>3, <2>4, <2>5, <2>6 DEF TypeOK, Typed, Counted
<1> QED BY Inductive, <1>1, PTL

\* However many clients retry, restart, edit and die, one revision of an item
\* is never executed by two runs (create_run_with_input and its key).
THEOREM OneRun == Spec => []OneRunPerRevision
<1>1. IndInv => OneRunPerRevision
  BY DEF IndInv, Rows
<1> QED BY Inductive, <1>1, PTL

\* A process works only for the current revision of an item that is neither
\* deleted nor archived, as long as no client wrote on outdated knowledge and
\* none died between the start and its run.
THEOREM OnlyTheCurrentExecutes == Spec => []ExecutingIsCurrent
<1>1. IndInv => ExecutingIsCurrent
  BY IndInvIs DEF IInv
<1> QED BY Inductive, <1>1, PTL

\* The two together, as the run checks them: each revision has its run and
\* only what the item shows is executed.
THEOREM RunsAndItemsMatch == Spec => []RunsMatchItems
<1>1. TypeOK /\ OneRunPerRevision /\ ExecutingIsCurrent => RunsMatchItems
  BY DEF RunsMatchItems
<1> QED BY TypeCorrect, OneRun, OnlyTheCurrentExecutes, <1>1, PTL

\* The run an item reports is the one of its current text, and a turn's run is
\* its revision's (record_result, _sync, _link_run).
THEOREM ReportsTheRunOfItsText == Spec => []ReportsWhatItAsked
<1>1. IndInv => ReportsWhatItAsked
  BY DEF IndInv, Knowing, ItemKnown, Mine, TurnsKnown, ReportsWhatItAsked
<1> QED BY Inductive, <1>1, PTL

-----------------------------------------------------------------------------
(* What is offered is accepted.                                              *)

LEMMA ParkedIsAttention ==
    ASSUME NEW s \in Parked
    PROVE  ItemStatusOf(s) = "needs_attention"
  BY DEF Parked, ItemStatusOf

LEMMA OfferAccepted ==
    ASSUME NEW st \in ItemStatus, st # "archived", NEW s, NEW r,
           s \in Parked => st = "needs_attention" /\ r # 0,
           st \in Busy => r # 0 \/ \E c \in Clients : call[c].pc \in {"create", "record"},
           NEW a \in AllowedActions(st, s)
    PROVE  Accepts(a, st, s, r)
<1>1. a \in {"start", "cancel", "archive", "reconcile", "continue"}
  BY DEF AllowedActions
<1>2. CASE a = "start"
  <2>1. st = "draft" \/ (st \in {"failed", "cancelled", "needs_attention"} /\ s \notin Parked)
    BY <1>2 DEF AllowedActions
  <2>2. (CanLaunch(st) /\ st \notin {"failed", "cancelled", "needs_attention"}) \/ CanRestart(st, s)
    BY <2>1 DEF CanLaunch, CanRestart, Busy
  <2> QED BY <1>2, <2>2 DEF Accepts
<1>3. CASE a = "cancel"
  <2>1. st \in Busy
    BY <1>3 DEF AllowedActions
  <2> QED BY <1>3, <2>1 DEF Accepts
<1>4. CASE a = "archive"
  <2>1. st \notin Busy
    BY <1>4 DEF AllowedActions
  <2> QED BY <1>4, <2>1 DEF Accepts, CanArchive
<1>5. CASE a = "reconcile"
  <2>1. s \in Parked
    BY <1>5 DEF AllowedActions
  <2> QED BY <1>5, <2>1 DEF Accepts
<1>6. CASE a = "continue"
  <2>1. st \in {"completed", "failed", "cancelled", "needs_attention"} /\ s \notin Parked
    BY <1>6 DEF AllowedActions
  <2>2. CanContinue(st, s)
    BY <2>1 DEF CanContinue, Busy
  <2> QED BY <1>6, <2>2 DEF Accepts
<1> QED BY <1>1, <1>2, <1>3, <1>4, <1>5, <1>6

\* Whatever a facade is offered for an item, its service method accepts
\* (_allowed_actions against the refusals of continue_item, _prepare_restart,
\* mark_started, cancel, archive, restore, delete).
THEOREM OffersAreAccepted == Spec => []OfferedIsAccepted
<1>1. IndInv => OfferedIsAccepted
  <2> SUFFICES ASSUME IndInv, item.there, anomaly = {}
               PROVE  OfferedIsAccepted
    BY DEF OfferedIsAccepted
  <2> DEFINE r  == RunOf(item)
             s  == StatusOf(r)
             st == IF s = "none" \/ item.status = "archived" THEN item.status
                   ELSE ItemStatusOf(s)
  <2>1. RunsTyped /\ ItemTyped /\ Together /\ Started
    BY DEF IndInv, Typed, Rows
  <2>2. item.status \in ItemStatus
    BY <2>1 DEF ItemTyped, ItemRow
  <2>3. \A q \in 1..Len(runs) : runs[q].there
    BY <2>1, RunRows DEF Together
  <2>4. r \in 0..Len(runs)
    BY <2>1, RunOfItem
  <2>5. s = "none" \/ (r # 0 /\ s \in RunStatus)
    BY <2>1, RunOfItem DEF StatusOf
  <2>6. SUFFICES ASSUME NEW a \in AllowedActions(st, s) PROVE Accepts(a, st, s, r)
    BY DEF OfferedIsAccepted
  <2>7. CASE item.status = "archived"
    <3>1. st = "archived"
      BY <2>7
    <3> HIDE DEF r, s, st
    <3>2. a \in {"restore", "delete"}
      BY <2>6, <3>1 DEF AllowedActions
    <3> QED BY <3>1, <3>2 DEF Accepts
  <2>8. CASE item.status # "archived"
    <3>1. st \in ItemStatus /\ st # "archived"
      BY <2>2, <2>8, ItemStatusShown
    <3>2. s \in Parked => st = "needs_attention" /\ r # 0
      BY <2>5, <2>8, ParkedIsAttention DEF Parked
    <3>3. ASSUME st \in Busy, r = 0 PROVE \E c \in Clients : call[c].pc \in {"create", "record"}
      <4>1. s = "none"
        BY <2>5, <3>3
      <4>2. item.status \in Busy
        BY <3>3, <4>1
      <4>3. item.run = 0 /\ KnownRun(item.rev) = 0
        BY <2>1, <2>8, <3>3, RunOfItem
      <4>4. \A q \in 1..Len(runs) : runs[q].key # item.rev
        BY <2>1, <2>3, <4>3, KnownRunIsOne
      <4>5. PICK c \in Clients : Launching(c)
        BY <2>1, <4>2, <4>3, <4>4, StartedIs DEF Pending
      <4> QED BY <4>5 DEF Launching
    <3> HIDE DEF r, s, st
    <3> QED BY <2>6, <3>1, <3>2, <3>3, OfferAccepted
  <2> QED BY <2>7, <2>8
<1> QED BY Inductive, <1>1, PTL

-----------------------------------------------------------------------------
(* An automatic settlement.                                                  *)

\* A step of a client moves that client, and from the lease on only Lease does.
LEMMA StepMoves ==
    ASSUME Typed, NEW c \in Clients, Step(c)
    PROVE  Others(c) /\ (call[c].pc = "lease" => Lease(c))
<1>1. CASE SettleAll(c) \/ Read(c)
  BY <1>1, SettleAllEffect, ReadEffect
<1>2. CASE Sync(c) \/ Refused(c) \/ Continue(c) \/ Update(c) \/ Start(c)
  BY <1>2, SyncEffect, RefusedEffect, ContinueEffect, UpdateEffect, StartEffect
<1>3. CASE Restart(c) \/ MarkStarted(c) \/ CreateRun(c)
  BY <1>3, RestartEffect, MarkStartedEffect, CreateRunEffect
<1>4. CASE Lease(c)
  BY <1>4, LeaseEffect
<1>5. CASE Execute(c) \/ RecordResult(c) \/ Settle(c) \/ Reconcile(c) \/ Cancel(c)
  BY <1>5, ExecuteEffect, RecordResultEffect, SettleEffect, ReconcileEffect, CancelEffect
<1>6. CASE Archive(c) \/ Restore(c) \/ Delete(c)
  BY <1>6, ArchiveEffect, RestoreEffect, DeleteEffect
<1> QED BY <1>1, <1>2, <1>3, <1>4, <1>5, <1>6 DEF Step

\* A settlement that still knows the item holds a run that leaves no choice.
LEMMA LeasesTheForced ==
    ASSUME IndInv, NEW c \in Clients, c \notin outdated, "overtaken" \notin anomaly,
           call[c].pc = "lease", call[c].op = "reconcile_only"
    PROVE  runs[call[c].run].status # "awaiting"
<1>1. Seen(c) /\ call[c].run # 0 /\ call[c].run \in 1..Len(runs)
  BY SeenIsLong DEF Seen, SeenPcs, IndInv, Typed, CallsTyped, Carries
<1>2. item.there /\ runs[call[c].run].key = item.rev
  BY <1>1 DEF IndInv, Knowing, Knows, Mine
<1>3. runs[call[c].run].there
  BY <1>1, <1>2, RunRows DEF IndInv, Rows, Typed, Together
<1>4. runs[call[c].run].status \in Forced
  BY <1>1, <1>2, <1>3, RunRows DEF IndInv, Typed, SettlesForced, SettlesOne
<1> QED BY <1>4 DEF Forced, Terminal

LEMMA LeaseNeverChooses ==
    ASSUME IndInv, NEW c \in Clients, Lease(c), "overtaken" \notin anomaly \cup anomaly'
    PROVE  ~Chooses(c)
<1> SUFFICES ASSUME Chooses(c) PROVE FALSE
  OBVIOUS
<1> DEFINE r == call[c].run
<1>1. /\ call[c].pc = "lease" /\ call[c].op = "reconcile_only"
      /\ runs[r].status = "awaiting" /\ runs'[r].status # "awaiting"
  BY DEF Chooses
<1>2. runs' # runs
  BY <1>1
<1>3. Record(c) \/ Execution(c)
  BY <1>1, <1>2, LeaseEffect DEF IndInv
<1>4. c \notin outdated
  BY <1>3 DEF Record, Flag, Execution
<1> QED BY <1>1, <1>4, LeasesTheForced

\* An automatic settlement never takes a decision that has an alternative,
\* though it reads the item and its run three times on the way (settle,
\* reconcile, engine.run), unless the item was redirected in between.
THEOREM SettlementsLeaveNoChoice == Spec => SettleNeverChooses
<1>1. IndInv /\ [Next]_vars =>
        [\A c \in Clients : "overtaken" \notin anomaly \cup anomaly' => ~Chooses(c)]_vars
  <2> SUFFICES ASSUME IndInv, Next, NEW c \in Clients, "overtaken" \notin anomaly \cup anomaly',
                      Chooses(c)
               PROVE  FALSE
    OBVIOUS
  <2>1. call[c].pc = "lease" /\ call'[c].pc \notin {"lease", "idle"}
    BY DEF Chooses
  <2>2. PICK d \in Clients :
           Create(d) \/ (\E op \in Operations : Begin(d, op)) \/ Step(d) \/ Crash(d)
    BY DEF Next
  <2>3. CASE Create(d)
    BY <2>1, <2>3 DEF Create
  <2>4. CASE \E op \in Operations : Begin(d, op)
    BY <2>1, <2>4, BeginEffect DEF IndInv, Others, Begin
  <2>5. CASE Step(d)
    <3>1. Others(d) /\ (call[d].pc = "lease" => Lease(d))
      BY <2>5, StepMoves DEF IndInv
    <3>2. c = d
      BY <2>1, <3>1 DEF Others
    <3> QED BY <2>1, <3>1, <3>2, LeaseNeverChooses
  <2>6. CASE Crash(d)
    <3>1. Others(d) /\ call'[d].pc = "idle"
      BY <2>6, Ends DEF IndInv, Typed, Crash
    <3> QED BY <2>1, <3>1 DEF Others
  <2> QED BY <2>2, <2>3, <2>4, <2>5, <2>6
<1> QED BY Inductive, <1>1, PTL DEF Spec, SettleNeverChooses
=============================================================================
