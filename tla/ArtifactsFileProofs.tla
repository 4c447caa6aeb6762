------------------------- MODULE ArtifactsFileProofs -------------------------
(***************************************************************************)
(* For any actors, scopes, results, errors and crashes, the artifact store *)
(* keeps what it answered, and once all is quiet after at most one error   *)
(* it holds no file without a row and no row without file or tombstone.    *)
(*                                                                         *)
(* The invariant says of each actor what it owns: the ids it has drawn and *)
(* neither answered nor given up.  They are nobody else's, so that what an *)
(* actor removes was never answered; and the lock makes the index that an  *)
(* actor writes the one that it read.                                      *)
(***************************************************************************)
EXTENDS Artifacts, TLAPS

WritePc == {"file", "index", "unwrite", "meta", "erase", "unrecord"}

ExpiryPc == {"find", "match", "scope", "tombstone", "delete"}

Meta == Metadata \cup {[repository_id |-> {}, project_id |-> {}]}

Record ==
  [id : Nat, repository_id : {m.repository_id : m \in Meta},
   project_id : {m.project_id : m \in Meta}, created_at : Nat, spilled : BOOLEAN,
   tombstone : SUBSET Nat]

WriteOp ==
  [pc : WritePc, held : BOOLEAN, scope : Scope, left : Int, spill : BOOLEAN, metadata : Meta,
   id : Nat, created_at : Nat, refs : Seq(Nat), snap : SUBSET Record]

ExpiryOp ==
  [pc : ExpiryPc, held : BOOLEAN, scope : Scope \cup {CHOOSE s \in Scope : TRUE},
   scopes : SUBSET Scope, todo : SUBSET Scope, targets : SUBSET Nat,
   matched : [Scope -> SUBSET Nat], at : Nat, snap : SUBSET Record, deletions : SUBSET Nat,
   retention : BOOLEAN]

Failed == [pc |-> "failed"]

Op == {Idle, Failed} \cup WriteOp \cup ExpiryOp

\* The index of its scope is locked for the operation.
Holds(op) == op.pc \in Sections /\ op.held

\* Ids the operation has drawn and may still take back.
Own(op) ==
  {id \in Nat : /\ op.pc \in WritePc
                /\ id \in Range(op.refs) \/ (op.pc # "file" /\ id = op.id)}

\* Of these, one that has no row yet.
Fresh(op) == {id \in Nat : op.pc \in {"index", "unwrite"} /\ id = op.id}

\* Ids whose files an expiry is about to delete.
Doomed(op) == {id \in Nat : op.pc = "delete" /\ id \in op.deletions}

\* The refs that a spill has so far.
Spilled(op) == {id \in Nat : op.pc \in {"file", "index", "meta"} /\ id \in Range(op.refs)}

Stored(id, s) == \E r \in index[s] : r.id = id /\ (id \in files \/ r.tombstone # {})

TypeOK ==
  /\ now \in Nat /\ nextId \in Nat /\ faults \in Nat /\ crashes \in Nat
  /\ files \in SUBSET Nat
  /\ index \in [Scope -> SUBSET Record]
  /\ locks \in [Scope -> SUBSET Actor]
  /\ returned \in SUBSET [id : Nat, scope : Scope]
  /\ ops \in [Actor -> Op]

\* Ids are drawn in order.
Drawn ==
  /\ \A id \in files : id < nextId
  /\ \A s \in Scope : \A r \in index[s] : r.id < nextId
  /\ \A ref \in returned : ref.id < nextId
  /\ \A a \in Actor : \A id \in Own(ops[a]) \cup Doomed(ops[a]) : id < nextId

\* An artifact has one row, in one scope.
OneRow ==
  \A s, t \in Scope : \A r \in index[s], q \in index[t] : r.id = q.id => s = t /\ r = q

\* Who holds the lock of an index has its rows.
LockInv(a) ==
  /\ Holds(ops[a]) => locks[ops[a].scope] = {a} /\ ops[a].snap = index[ops[a].scope]
  /\ ops[a].pc \in WritePc \cup ExpiryPc /\ ops[a].held => ops[a].pc \in Sections
  /\ ops[a].pc = "tombstone" => ops[a].scope \in Scope

\* What an operation owns was not answered, and its rows are in its scope.
OwnInv(a) ==
  /\ \A id \in Own(ops[a]) : \A ref \in returned : ref.id # id
  /\ \A s \in Scope : \A r \in index[s] : r.id \in Own(ops[a]) => s = ops[a].scope
  /\ \A id \in Fresh(ops[a]) : \A s \in Scope : \A r \in index[s] : r.id # id

\* Where an operation is with its files.
FileInv(a) ==
  /\ ops[a].pc = "index" => ops[a].id \in files
  /\ \A id \in Doomed(ops[a]) : \A s \in Scope : \A r \in index[s] :
       r.id = id => r.tombstone # {}
  /\ \A id \in Spilled(ops[a]) : Stored(id, ops[a].scope)
  /\ ops[a].pc = "meta" => ops[a].id \in Range(ops[a].refs)
  /\ ops[a].pc \in {"unwrite", "erase", "unrecord", "failed"} => faults > 0

Apart(a, b) ==
  /\ Own(ops[a]) \cap Own(ops[b]) = {}
  /\ Fresh(ops[a]) \cap Doomed(ops[b]) = {}

IInv ==
  /\ TypeOK /\ Drawn /\ OneRow
  /\ \A a \in Actor : LockInv(a) /\ OwnInv(a) /\ FileInv(a)
  /\ \A a, b \in Actor : a # b => Apart(a, b)
  /\ ReferencedAreStored

-----------------------------------------------------------------------------
(* Without a crash and with at most one error.                              *)

Calm == crashes = 0 /\ faults <= 1

\* The id whose row an operation removes, having deleted its file.
Gone(op) == {id \in Nat : op.pc = "unrecord" /\ id = op.id}

HasRow(id) == \E s \in Scope : \E r \in index[s] : r.id = id

\* A file without a row is about to get one or to be deleted; a row that has lost its
\* file without a tombstone is about to be removed.
CalmInv ==
  Calm =>
    /\ \A id \in files : HasRow(id) \/ \E a \in Actor : id \in Fresh(ops[a])
    /\ \A s \in Scope : \A r \in index[s] :
         \/ r.id \in files \/ r.tombstone # {}
         \/ \E a \in Actor : r.id \in Gone(ops[a])
    /\ \A a \in Actor : Gone(ops[a]) \cap files = {}

FullInv == IInv /\ CalmInv
-----------------------------------------------------------------------------
(* Sequences and operations.                                               *)

\* What the sequences of refs hold.
LEMMA RefsAsSets ==
  ASSUME NEW q \in Seq(Nat)
  PROVE  /\ \A x \in Nat : /\ Append(q, x) \in Seq(Nat)
                           /\ Range(Append(q, x)) = Range(q) \cup {x}
         /\ q # << >> => /\ Head(q) \in Nat /\ Tail(q) \in Seq(Nat)
                         /\ Head(q) \in Range(q) /\ Range(Tail(q)) \subseteq Range(q)
<1>1. ASSUME NEW x \in Nat
      PROVE  Append(q, x) \in Seq(Nat) /\ Range(Append(q, x)) = Range(q) \cup {x}
  <2>1. /\ Append(q, x) \in Seq(Nat) /\ Len(Append(q, x)) = Len(q) + 1
        /\ DOMAIN q = 1 .. Len(q) /\ DOMAIN Append(q, x) = 1 .. Len(q) + 1
        /\ \A i \in 1 .. Len(q) : Append(q, x)[i] = q[i]
        /\ Append(q, x)[Len(q) + 1] = x /\ Len(q) \in Nat
    OBVIOUS
  <2>2. \A i \in 1 .. Len(q) + 1 : i \in 1 .. Len(q) \/ i = Len(q) + 1
    BY <2>1
  <2>3. \A i \in 1 .. Len(q) : i \in 1 .. Len(q) + 1
    BY <2>1
  <2>4. Len(q) + 1 \in 1 .. Len(q) + 1
    BY <2>1
  <2> QED BY <2>1, <2>2, <2>3, <2>4, Zenon DEF Range
<1>2. ASSUME q # << >>
      PROVE  /\ Head(q) \in Nat /\ Tail(q) \in Seq(Nat)
             /\ Head(q) \in Range(q) /\ Range(Tail(q)) \subseteq Range(q)
  <2>1. /\ Head(q) = q[1] /\ 1 \in DOMAIN q /\ q[1] \in Nat /\ Tail(q) \in Seq(Nat)
        /\ \A i \in DOMAIN Tail(q) : i + 1 \in DOMAIN q /\ Tail(q)[i] = q[i + 1]
    BY <1>2
  <2>2. Head(q) \in Range(q)
    BY <2>1, Zenon DEF Range
  <2>3. ASSUME NEW x \in Range(Tail(q)) PROVE x \in Range(q)
    <3>1. PICK i \in DOMAIN Tail(q) : x = Tail(q)[i]
      BY Zenon DEF Range
    <3>2. i + 1 \in DOMAIN q /\ x = q[i + 1]
      BY <2>1, <3>1
    <3> QED BY <3>2, Zenon DEF Range
  <2> QED BY <2>1, <2>2, <2>3
<1> QED BY <1>1, <1>2

\* The step of an operation tells its form.
LEMMA Forms ==
  ASSUME NEW op \in Op
  PROVE  /\ op.pc \in WritePc => op \in WriteOp
         /\ op.pc \in ExpiryPc => op \in ExpiryOp
         /\ op.pc \in WritePc \cup ExpiryPc \cup {"idle", "failed"}
  BY DEF Op, WriteOp, ExpiryOp, Idle, Failed, WritePc, ExpiryPc

\* What has no row yet, and what a spill has so far, is owned.
LEMMA Owned ==
  ASSUME NEW op
  PROVE  Fresh(op) \subseteq Own(op) /\ Spilled(op) \subseteq Own(op)
  BY DEF Fresh, Spilled, Own, WritePc

\* What the counters are.
LEMMA Counters ==
  ASSUME IInv
  PROVE  nextId \in Nat /\ faults \in Nat /\ crashes \in Nat
  BY Zenon DEF IInv, TypeOK

\* An actor's operation is the one that it has just begun or gone on to.
LEMMA Became ==
  ASSUME IInv, NEW a \in Actor, NEW new, Become(a, new)
  PROVE  ops'[a] = new
  BY Zenon DEF IInv, TypeOK, Become

-----------------------------------------------------------------------------
(* A step of one actor and what it leaves to the others.                   *)

Kept(r, q) == q.id = r.id /\ (r.tombstone # {} => q.tombstone # {})

\* What an actor may do to the disk: rows come back and go on but for its own, and files
\* go only if it owns them or if their rows have tombstones.
WorldStep(a) ==
  /\ \A b \in Actor \ {a} : Holds(ops[b]) =>
       /\ locks'[ops[b].scope] = locks[ops[b].scope]
       /\ index'[ops[b].scope] = index[ops[b].scope]
  /\ \A s \in Scope : \A r \in index'[s] :
       /\ \/ r.id \in Fresh(ops[a]) /\ s = ops[a].scope
          \/ \E q \in index[s] : Kept(q, r)
       /\ \A q \in index'[s] : q.id = r.id => q = r
  /\ \A s \in Scope : \A r \in index[s] :
       r.id \in Own(ops[a]) \/ \E q \in index'[s] : Kept(r, q)
  /\ \A id \in files : id \in files' \cup Own(ops[a]) \cup Doomed(ops[a])
  /\ \A ref \in returned' :
       ref \in returned \/ (ref.id \in Own(ops[a]) /\ Stored(ref.id, ref.scope)')
  /\ nextId' >= nextId /\ faults' >= faults

TypeOfDisk ==
  /\ now \in Nat /\ nextId \in Nat /\ faults \in Nat /\ crashes \in Nat
  /\ files \in SUBSET Nat
  /\ index \in [Scope -> SUBSET Record]
  /\ locks \in [Scope -> SUBSET Actor]
  /\ returned \in SUBSET [id : Nat, scope : Scope]

\* What was stored stays so, unless the actor that moves owns it.
LEMMA StoredStays ==
  ASSUME IInv, NEW a \in Actor, WorldStep(a),
         NEW s \in Scope, NEW id \in Nat \ Own(ops[a]), Stored(id, s)
  PROVE  Stored(id, s)'
<1>1. PICK r \in index[s] : r.id = id /\ (id \in files \/ r.tombstone # {})
  BY DEF Stored
<1>2. PICK q \in index'[s] : Kept(r, q)
  BY <1>1 DEF WorldStep
<1>3. id \in files /\ id \notin files' => r.tombstone # {}
  BY <1>1 DEF WorldStep, IInv, FileInv
<1> QED BY <1>1, <1>2, <1>3 DEF Kept, Stored

\* The others' operations keep their invariants.
LEMMA OthersKeep ==
  ASSUME IInv, NEW a \in Actor, WorldStep(a), TypeOfDisk',
         NEW b \in Actor, b # a, ops'[b] = ops[b]
  PROVE  (LockInv(b) /\ OwnInv(b) /\ FileInv(b))'
<1>1. LockInv(b) /\ OwnInv(b) /\ FileInv(b) /\ Apart(a, b) /\ Apart(b, a)
  BY DEF IInv
<1>2. Own(ops[a]) \cap Own(ops[b]) = {} /\ Fresh(ops[a]) \cap Doomed(ops[b]) = {}
      /\ Fresh(ops[b]) \cap Doomed(ops[a]) = {}
  BY <1>1 DEF Apart
<1>3. /\ Fresh(ops[a]) \subseteq Own(ops[a]) /\ Fresh(ops[b]) \subseteq Own(ops[b])
      /\ Spilled(ops[b]) \subseteq Own(ops[b])
  BY Owned
<1>4. LockInv(b)'
  BY <1>1 DEF LockInv, WorldStep
<1>5. \A s \in Scope : \A r \in index'[s] :
        r.id \in Own(ops[b]) \cup Doomed(ops[b]) => \E q \in index[s] : Kept(q, r)
  BY <1>2, <1>3 DEF WorldStep
<1>6. OwnInv(b)'
  <2>1. \A id \in Own(ops[b]) : \A ref \in returned' : ref.id # id
    BY <1>1, <1>2 DEF OwnInv, WorldStep
  <2>2. \A s \in Scope : \A r \in index'[s] : r.id \in Own(ops[b]) => s = ops[b].scope
    BY <1>1, <1>5 DEF OwnInv, Kept
  <2>3. \A id \in Fresh(ops[b]) : \A s \in Scope : \A r \in index'[s] : r.id # id
    BY <1>1, <1>3, <1>5 DEF OwnInv, Kept
  <2> QED BY <2>1, <2>2, <2>3 DEF OwnInv
<1>7. FileInv(b)'
  <2>1. ops[b].pc = "index" => ops[b].id \in files'
    <3>1. ops[b].pc = "index" => ops[b].id \in files /\ ops[b].id \in Fresh(ops[b])
      BY <1>1, Zenon DEF FileInv, Fresh, IInv, TypeOK
    <3> QED BY <3>1, <1>2, <1>3 DEF WorldStep
  <2>2. \A id \in Doomed(ops[b]) : \A s \in Scope : \A r \in index'[s] :
          r.id = id => r.tombstone # {}
    BY <1>1, <1>5 DEF FileInv, Kept
  <2>3. \A id \in Spilled(ops[b]) : Stored(id, ops[b].scope)'
    <3> TAKE id \in Spilled(ops[b])
    <3>1. id \in Nat \ Own(ops[a]) /\ Stored(id, ops[b].scope)
      BY <1>1, <1>2, <1>3 DEF FileInv, Spilled
    <3>2. ops[b].scope \in Scope
      BY Forms DEF Spilled, WritePc, WriteOp, IInv, TypeOK
    <3> QED BY <3>1, <3>2, StoredStays
  <2>4. faults > 0 => faults' > 0
    BY DEF WorldStep, IInv, TypeOK, TypeOfDisk
  <2> QED BY <1>1, <2>1, <2>2, <2>3, <2>4 DEF FileInv
<1> QED BY <1>4, <1>6, <1>7

\* What an actor may do to its own files and rows as long as all is calm: a file that it
\* leaves has a row, a row that it leaves has its file or goes next.
CalmStep(a, new) ==
  CalmInv /\ Calm' =>
    /\ files' \subseteq files \cup Fresh(new)
    /\ \A id \in Own(ops[a]) :
         /\ id \in Fresh(ops[a]) \ Fresh(new) /\ id \in files' => HasRow(id)'
         /\ HasRow(id) /\ id \in files' => HasRow(id)'
         /\ HasRow(id)' =>
              \/ id \in Gone(new)
              \/ id \notin Gone(ops[a]) /\ (id \in files \cup Fresh(ops[a]) => id \in files')
    /\ Gone(new) \cap files' = {}

InvStep == IInv' /\ (CalmInv => CalmInv')

\* Then the calm part of the invariant is kept.
LEMMA CalmKept ==
  ASSUME IInv, IInv', NEW a \in Actor, NEW new \in Op, Become(a, new), WorldStep(a),
         CalmStep(a, new), crashes' >= crashes
  PROVE  CalmInv => CalmInv'
<1> SUFFICES ASSUME CalmInv, Calm' PROVE CalmInv'
  BY DEF CalmInv
<1>1. /\ ops'[a] = new /\ \A b \in Actor \ {a} : ops'[b] = ops[b]
  BY DEF Become, IInv, TypeOK
<1>2. Calm
  BY DEF Calm, IInv, TypeOK, WorldStep
<1>3. /\ \A id \in files : HasRow(id) \/ \E b \in Actor : id \in Fresh(ops[b])
      /\ \A s \in Scope : \A r \in index[s] :
           \/ r.id \in files \/ r.tombstone # {}
           \/ \E b \in Actor : r.id \in Gone(ops[b])
      /\ \A b \in Actor : Gone(ops[b]) \cap files = {}
  BY <1>2 DEF CalmInv
<1>4. /\ files' \subseteq files \cup Fresh(new)
      /\ \A id \in Own(ops[a]) :
           /\ id \in Fresh(ops[a]) \ Fresh(new) /\ id \in files' => HasRow(id)'
           /\ HasRow(id) /\ id \in files' => HasRow(id)'
           /\ HasRow(id)' =>
                \/ id \in Gone(new)
                \/ id \notin Gone(ops[a]) /\ (id \in files \cup Fresh(ops[a]) => id \in files')
      /\ Gone(new) \cap files' = {}
  BY DEF CalmStep
<1>5. /\ Fresh(ops[a]) \subseteq Own(ops[a]) /\ Gone(ops[a]) \subseteq Own(ops[a])
      /\ Fresh(new) \subseteq Own(new)
  BY Owned DEF Gone, Own, WritePc
<1>6. \A id \in files' : HasRow(id)' \/ \E b \in Actor : id \in Fresh(ops'[b])
  <2> SUFFICES ASSUME NEW id \in files', ~\E b \in Actor : id \in Fresh(ops'[b])
               PROVE  HasRow(id)'
    OBVIOUS
  <2>1. id \in files /\ id \notin Fresh(new)
    BY <1>1, <1>4
  <2>2. CASE id \in Own(ops[a])
    BY <1>1, <1>3, <1>4, <2>1, <2>2
  <2>3. CASE id \notin Own(ops[a])
    <3>1. HasRow(id)
      BY <1>1, <1>3, <1>5, <2>1, <2>3
    <3> QED BY <2>3, <3>1 DEF HasRow, WorldStep, Kept
  <2> QED BY <2>2, <2>3
<1>7. \A s \in Scope : \A r \in index'[s] :
        \/ r.id \in files' \/ r.tombstone # {}
        \/ \E b \in Actor : r.id \in Gone(ops'[b])
  <2> SUFFICES ASSUME NEW s \in Scope, NEW r \in index'[s], r.id \notin files', r.tombstone = {},
                      ~\E b \in Actor : r.id \in Gone(ops'[b])
               PROVE  FALSE
    OBVIOUS
  <2>1. HasRow(r.id)'
    BY DEF HasRow
  <2>2. r.id \notin Fresh(ops[a]) /\ r.id \notin Gone(ops[a])
    BY <1>1, <1>4, <1>5, <2>1
  <2>3. PICK q \in index[s] : Kept(q, r)
    BY <2>2 DEF WorldStep
  <2>4. q.id = r.id /\ q.tombstone = {}
    BY <2>3 DEF Kept
  <2>5. \A b \in Actor : q.id \notin Gone(ops[b])
    BY <1>1, <2>2, <2>4
  <2>6. r.id \in files
    BY <1>3, <2>4, <2>5
  <2>7. r.id \notin Own(ops[a])
    BY <1>1, <1>4, <2>1, <2>6
  <2>8. r.id \in Doomed(ops[a])
    BY <2>6, <2>7 DEF WorldStep
  <2> QED BY <2>4, <2>8 DEF IInv, FileInv
<1>8. \A b \in Actor : Gone(ops'[b]) \cap files' = {}
  <2> SUFFICES ASSUME NEW b \in Actor \ {a} PROVE Gone(ops[b]) \cap files' = {}
    BY <1>1, <1>4
  <2>1. Own(new) \cap Own(ops[b]) = {}
    BY <1>1 DEF IInv, Apart
  <2>2. Gone(ops[b]) \subseteq Own(ops[b])
    BY DEF Gone, Own, WritePc
  <2> QED BY <1>3, <1>4, <1>5, <2>1, <2>2
<1> QED BY <1>6, <1>7, <1>8 DEF CalmInv

\* A step of an actor keeps the invariant if its own part is kept.
LEMMA ActorStep ==
  ASSUME IInv, NEW a \in Actor, NEW new \in Op, Become(a, new), WorldStep(a), TypeOfDisk',
         \A id \in files' : id \in files \/ id < nextId',
         \A id \in Own(new) : id \in Own(ops[a]) \/ (id = nextId /\ nextId' > nextId),
         \A id \in Fresh(new) : id \in Fresh(ops[a]) \/ id = nextId,
         \A id \in Doomed(new) :
           id \in Doomed(ops[a]) \/ \E s \in Scope : \E r \in index[s] : r.id = id,
         (LockInv(a) /\ OwnInv(a) /\ FileInv(a))',
         CalmStep(a, new), crashes' >= crashes
  PROVE  InvStep
<1>1. /\ ops' \in [Actor -> Op] /\ ops'[a] = new /\ \A b \in Actor \ {a} : ops'[b] = ops[b]
      /\ nextId \in Nat /\ nextId' \in Nat
  BY DEF Become, IInv, TypeOK, TypeOfDisk
<1>2. TypeOK'
  BY <1>1 DEF TypeOK, TypeOfDisk
<1>3. Drawn'
  <2>1. nextId' >= nextId
    BY DEF WorldStep
  <2>2. \A id \in files' : id < nextId'
    <3> SUFFICES ASSUME NEW id \in files' PROVE id < nextId'
      OBVIOUS
    <3>1. id \in Nat /\ (id < nextId \/ id < nextId')
      BY DEF IInv, Drawn, TypeOfDisk
    <3> QED BY <1>1, <2>1, <3>1
  <2>3. \A id \in Own(ops[a]) : id \in Nat /\ id < nextId
    BY Zenon DEF IInv, Drawn, Own
  <2>4. \A s \in Scope : \A r \in index'[s] : r.id < nextId'
    <3> SUFFICES ASSUME NEW s \in Scope, NEW r \in index'[s] PROVE r.id < nextId'
      BY Zenon
    <3>1. r.id \in Nat
      BY DEF TypeOfDisk, Record
    <3>2. r.id \in Fresh(ops[a]) \/ \E q \in index[s] : q.id = r.id
      <4>1. r.id \in Fresh(ops[a]) \/ \E q \in index[s] : Kept(q, r)
        BY Zenon DEF WorldStep
      <4> QED BY <4>1, Zenon DEF Kept
    <3>3. \A q \in index[s] : q.id < nextId
      BY Zenon DEF IInv, Drawn
    <3>4. Fresh(ops[a]) \subseteq Own(ops[a])
      BY Owned
    <3>5. r.id < nextId
      BY <2>3, <3>2, <3>3, <3>4, Zenon
    <3> QED BY <3>1, <3>5, <2>1, <1>1
  <2>5. \A ref \in returned' : ref.id < nextId'
    <3> SUFFICES ASSUME NEW ref \in returned' PROVE ref.id < nextId'
      OBVIOUS
    <3>1. ref.id \in Nat /\ ref.id < nextId
      BY <2>3, Zenon DEF WorldStep, IInv, Drawn, TypeOfDisk
    <3> QED BY <3>1, <2>1, <1>1
  <2>6. \A b \in Actor : \A id \in Own(ops[b]) \cup Doomed(ops[b]) : id \in Nat /\ id < nextId'
    <3> SUFFICES ASSUME NEW b \in Actor, NEW id \in Own(ops[b]) \cup Doomed(ops[b])
                 PROVE  id \in Nat /\ id < nextId'
      BY Zenon
    <3>1. id \in Nat
      BY DEF Own, Doomed
    <3>2. id < nextId
      BY DEF IInv, Drawn
    <3> QED BY <1>1, <2>1, <3>1, <3>2
  <2>7. \A id \in Own(new) \cup Doomed(new) : id < nextId'
    <3>1. \A id \in Own(new) : id < nextId'
      BY SMTT(30), <2>6, <1>1, <2>1
    <3>2. \A id \in Doomed(new) : id < nextId'
      BY <2>6, <1>1, <2>1 DEF IInv, Drawn, TypeOK, Record
    <3> QED BY <3>1, <3>2
  <2>8. \A b \in Actor : \A id \in Own(ops'[b]) \cup Doomed(ops'[b]) : id < nextId'
    BY <1>1, <2>6, <2>7
  <2> QED BY <2>2, <2>4, <2>5, <2>8 DEF Drawn
<1>4. \A b \in Actor : (LockInv(b) /\ OwnInv(b) /\ FileInv(b))'
  BY <1>1, OthersKeep
<1>8. OneRow'
  <2> SUFFICES ASSUME NEW s \in Scope, NEW t \in Scope, NEW r \in index'[s], NEW q \in index'[t],
                      r.id = q.id
               PROVE  s = t /\ r = q
    BY DEF OneRow
  <2>1. s = t
    <3>1. \A id \in Fresh(ops[a]) : \A u \in Scope : \A x \in index[u] : x.id # id
      BY Zenon DEF IInv, OwnInv
    <3>a. \A u \in Scope : \A x \in index'[u] :
            \/ x.id \in Fresh(ops[a]) /\ u = ops[a].scope
            \/ \E y \in index[u] : Kept(y, x)
      BY Zenon DEF WorldStep
    <3>2. \/ r.id \in Fresh(ops[a]) /\ s = ops[a].scope
          \/ \E x \in index[s] : x.id = r.id
      BY <3>a, ZenonT(40) DEF Kept
    <3>3. \/ q.id \in Fresh(ops[a]) /\ t = ops[a].scope
          \/ \E x \in index[t] : x.id = q.id
      BY <3>a DEF Kept
    <3> QED BY <3>1, <3>2, <3>3 DEF IInv, OneRow
  <2> QED BY <2>1, Zenon DEF WorldStep
<1>5. \A b \in Actor \ {a} : Apart(a, b)' /\ Apart(b, a)'
  <2> SUFFICES ASSUME NEW b \in Actor \ {a} PROVE Apart(a, b)' /\ Apart(b, a)'
    BY Zenon
  <2>1. Apart(a, b) /\ Apart(b, a) /\ OwnInv(b) /\ ops'[b] = ops[b]
    BY <1>1, Zenon DEF IInv
  <2>2. \A id \in Own(ops[b]) \cup Doomed(ops[b]) : id # nextId
    BY <1>1 DEF IInv, Drawn, Own, Doomed
  <2>3. Own(new) \cap Own(ops[b]) = {} /\ Fresh(new) \cap Doomed(ops[b]) = {}
    BY <2>1, <2>2, Zenon DEF Apart
  <2>4. Fresh(ops[b]) \cap Doomed(new) = {}
    BY <2>1 DEF Apart, OwnInv
  <2> QED BY <1>1, <2>1, <2>3, <2>4, Zenon DEF Apart
<1>6. \A b, c \in Actor : b # c => Apart(b, c)'
  <2> SUFFICES ASSUME NEW b \in Actor, NEW c \in Actor, b # c PROVE Apart(b, c)'
    OBVIOUS
  <2>1. CASE b = a \/ c = a
    BY <2>1, <1>5
  <2>2. CASE b # a /\ c # a
    BY <2>2, <1>1, Zenon DEF Apart, IInv
  <2> QED BY <2>1, <2>2, Zenon
<1>7. ReferencedAreStored'
  <2> SUFFICES ASSUME NEW ref \in returned' PROVE Stored(ref.id, ref.scope)'
    BY DEF ReferencedAreStored, Stored
  <2>1. CASE ref \in returned
    <3>1. /\ ref.scope \in Scope /\ ref.id \in Nat \ Own(ops[a])
          /\ Stored(ref.id, ref.scope)
      BY <2>1 DEF IInv, TypeOK, OwnInv, ReferencedAreStored, Stored
    <3> QED BY SMTT(30), <3>1, StoredStays
  <2>2. CASE ref \notin returned
    BY <2>2, Zenon DEF WorldStep
  <2> QED BY <2>1, <2>2, Zenon
<1>9. IInv'
  BY <1>2, <1>3, <1>4, <1>6, <1>7, <1>8, Zenon DEF IInv
<1> QED BY <1>9, CalmKept DEF InvStep
-----------------------------------------------------------------------------
(* The steps that leave the disk alone.                                    *)

\* Who owns nothing disturbs nothing.
LEMMA CalmOwnsNothing ==
  ASSUME NEW a \in Actor, NEW new, Own(ops[a]) = {}, files' \subseteq files, Gone(new) = {}
  PROVE  CalmStep(a, new)
BY DEF CalmStep

\* After a second error there is nothing to show.
LEMMA SecondError ==
  ASSUME NEW a \in Actor, NEW new, faults' \in Nat, faults' > 1
  PROVE  CalmStep(a, new)
BY DEF CalmStep, Calm

\* A step without effect on the disk does the others nothing.
LEMMA NoEffect ==
  ASSUME IInv, NEW a \in Actor, UNCHANGED <<files, index, locks, nextId, returned>>,
         faults' \in Nat, faults' >= faults
  PROVE  WorldStep(a)
<1>1. nextId \in Nat
  BY DEF IInv, TypeOK
<1>2. \A s \in Scope : \A r, q \in index[s] : r.id = q.id => r = q
  BY DEF IInv, OneRow
<1>3. \A r : Kept(r, r)
  BY DEF Kept
<1> QED BY <1>1, <1>2, <1>3 DEF WorldStep

\* An operation begins, ends, lists a scope or goes on to the next: it owns nothing.
LEMMA OpOnly ==
  ASSUME IInv, NEW a \in Actor, NEW new \in Op, Become(a, new),
         UNCHANGED <<disk, locks, world, faults, returned>>,
         new.pc \in {"idle", "file", "find", "match", "scope", "tombstone"},
         new.pc # "idle" => ~new.held, ops[a].pc \notin WritePc,
         new.pc = "file" => new.refs = << >>,
         new.pc = "tombstone" => new.scope \in Scope
  PROVE  InvStep
<1>1. /\ UNCHANGED <<files, index, locks, nextId, returned, faults, now, crashes>>
      /\ faults' \in Nat /\ faults' >= faults /\ TypeOfDisk'
  BY DEF disk, world, IInv, TypeOK, TypeOfDisk
<1>2. Own(new) = {} /\ Fresh(new) = {} /\ Doomed(new) = {} /\ Spilled(new) = {} /\ ~Holds(new)
  BY DEF Own, Fresh, Doomed, Spilled, Holds, Sections, WritePc, Range
<1>3. ops'[a] = new
  BY Became, Zenon
<1>4. (LockInv(a) /\ OwnInv(a) /\ FileInv(a))'
  BY <1>2, <1>3, Zenon DEF LockInv, OwnInv, FileInv, WritePc, ExpiryPc
<1>5. WorldStep(a)
  BY <1>1, NoEffect, Zenon
<1>6. \A id \in files' : id \in files
  BY <1>1
<1>7. CalmStep(a, new) /\ crashes' >= crashes
  <2>1. Own(ops[a]) = {} /\ Gone(new) = {}
    BY DEF Own, Gone
  <2> QED BY <1>1, <1>6, <2>1, CalmOwnsNothing DEF IInv, TypeOK
<1> QED BY <1>1, <1>2, <1>4, <1>5, <1>6, <1>7, ActorStep, Zenon

\* A write or a spill begins.
LEMMA StartWriteInv ==
  ASSUME IInv, NEW a \in Actor, NEW s \in Scope, NEW n \in Int, NEW spill \in BOOLEAN,
         NEW m \in Meta, StartWrite(a, s, n, spill, m)
  PROVE  InvStep
<1> DEFINE new == [pc |-> "file", held |-> FALSE, scope |-> s, left |-> n, spill |-> spill,
                   metadata |-> m, id |-> 0, created_at |-> 0, refs |-> << >>, snap |-> {}]
<1>1. /\ Become(a, new) /\ UNCHANGED <<disk, locks, world, faults, returned>>
      /\ ops[a].pc \notin WritePc
  BY Zenon DEF StartWrite, WritePc
<1>a. "file" \in WritePc /\ << >> \in Seq(Nat) /\ {} \in SUBSET Record /\ 0 \in Nat
  BY DEF WritePc
<1>2. new \in WriteOp
  BY <1>a, Zenon DEF WriteOp
<1>3. new.pc = "file" /\ ~new.held /\ new.refs = << >>
  OBVIOUS
<1> HIDE DEF new
<1> QED BY <1>1, <1>2, <1>3, OpOnly, Zenon DEF Op

\* An expiry begins.
LEMMA StartExpiryInv ==
  ASSUME IInv, NEW a \in Actor, NEW pc \in {"find", "match"}, NEW scopes \in SUBSET Scope,
         NEW targets \in SUBSET Nat, StartExpiry(a, pc, scopes, targets)
  PROVE  InvStep
<1> DEFINE new == [pc |-> pc, held |-> FALSE, scope |-> CHOOSE s \in Scope : TRUE,
                   scopes |-> scopes, todo |-> scopes, targets |-> targets,
                   matched |-> [s \in Scope |-> {}], at |-> now, snap |-> {},
                   deletions |-> {}, retention |-> pc = "find"]
<1>1. /\ Become(a, new) /\ UNCHANGED <<disk, locks, world, faults, returned>>
      /\ ops[a].pc \notin WritePc
  BY Zenon DEF StartExpiry, WritePc
<1>2. new \in ExpiryOp
  <2>1. now \in Nat
    BY DEF IInv, TypeOK
  <2> QED BY <2>1, Zenon DEF ExpiryOp, ExpiryPc
<1>3. new.pc = pc /\ ~new.held
  OBVIOUS
<1> HIDE DEF new
<1> QED BY <1>1, <1>2, <1>3, OpOnly, Zenon DEF Op

\* An expiry reads the indexes, scope by scope, and goes from scope to scope.
LEMMA ListingInv ==
  ASSUME IInv, NEW a \in Actor, ListScope(a) \/ Listed(a) \/ NextScope(a) \/ ExpiryEnds(a)
  PROVE  InvStep
<1>1. /\ UNCHANGED <<disk, locks, world, faults, returned>> /\ ops[a] \in Op
      /\ ops[a].pc \in {"find", "match", "scope"} /\ ops[a].pc \notin WritePc
  BY Zenon DEF ListScope, Listed, NextScope, ExpiryEnds, IInv, TypeOK, WritePc
<1>2. ops[a] \in ExpiryOp /\ ~ops[a].held
  <2>1. LockInv(a)
    BY DEF IInv
  <2> QED BY <1>1, <2>1, Forms, Zenon DEF LockInv, ExpiryPc, Sections, ExpiryOp
<1>3. \A s \in Scope : index[s] \subseteq Record
  BY DEF IInv, TypeOK
<1> USE DEF ExpiryOp, ExpiryPc
<1>4. CASE ListScope(a)
  <2>1. PICK s \in ops[a].todo :
          Become(a,
            IF ops[a].pc = "find"
            THEN LET found == {r.id : r \in find_expired_artifact_records(s, ops[a].at)}
                 IN  [ops[a] EXCEPT !.targets = @ \cup found, !.todo = @ \ {s}]
            ELSE LET hits == {r.id : r \in {r \in index[s] : r.id \in ops[a].targets}}
                 IN  [ops[a] EXCEPT !.matched[s] = hits, !.todo = @ \ {s}])
    BY <1>4, Zenon DEF ListScope
  <2>2. s \in Scope
    BY <1>2
  <2>3. CASE ops[a].pc = "find"
    <3> DEFINE found == {r.id : r \in find_expired_artifact_records(s, ops[a].at)}
               new == [ops[a] EXCEPT !.targets = @ \cup found, !.todo = @ \ {s}]
    <3>1. found \in SUBSET Nat
      BY <1>3, <2>2 DEF find_expired_artifact_records, Record
    <3>2. Become(a, new)
      BY <2>1, <2>3
    <3> HIDE DEF found
    <3>3. new \in ExpiryOp /\ new.pc = "find" /\ ~new.held
      BY <1>2, <2>3, <3>1, Zenon
    <3> HIDE DEF new
    <3> QED BY <1>1, <3>2, <3>3, OpOnly, Zenon DEF Op
  <2>4. CASE ops[a].pc # "find"
    <3> DEFINE hits == {r.id : r \in {r \in index[s] : r.id \in ops[a].targets}}
               new == [ops[a] EXCEPT !.matched[s] = hits, !.todo = @ \ {s}]
    <3>1. hits \in SUBSET Nat
      BY <1>3, <2>2 DEF Record
    <3>2. Become(a, new)
      BY <2>1, <2>4
    <3> HIDE DEF hits
    <3>3. new \in ExpiryOp /\ new.pc = "match" /\ ~new.held
      BY <1>2, <2>2, <2>4, <3>1, <1>4, Zenon DEF ListScope
    <3> HIDE DEF new
    <3> QED BY <1>1, <3>2, <3>3, OpOnly DEF Op
  <2> QED BY <2>3, <2>4
<1>5. CASE Listed(a)
  <2> DEFINE hit == {s \in ops[a].scopes : ops[a].matched[s] # {}}
             new == IF ops[a].pc = "find" THEN [ops[a] EXCEPT !.pc = "match", !.todo = ops[a].scopes]
                    ELSE [ops[a] EXCEPT !.pc = "scope", !.todo = hit]
  <2>1. Become(a, new)
    BY <1>5 DEF Listed
  <2>2. hit \in SUBSET Scope
    BY <1>2
  <2> HIDE DEF hit
  <2>3. new \in ExpiryOp /\ new.pc \in {"match", "scope"} /\ ~new.held
    BY <1>2, <2>2, Zenon
  <2> HIDE DEF new
  <2> QED BY <1>1, <2>1, <2>3, OpOnly DEF Op
<1>6. CASE NextScope(a)
  <2>1. PICK s \in ops[a].todo :
          Become(a, [ops[a] EXCEPT !.pc = "tombstone", !.scope = s, !.todo = @ \ {s}])
    BY <1>6, Zenon DEF NextScope
  <2> DEFINE new == [ops[a] EXCEPT !.pc = "tombstone", !.scope = s, !.todo = @ \ {s}]
  <2>2. new \in ExpiryOp /\ new.pc = "tombstone" /\ ~new.held /\ new.scope \in Scope
    BY <1>2, Zenon
  <2>3. Become(a, new)
    BY <2>1
  <2> HIDE DEF new
  <2> QED BY <1>1, <2>2, <2>3, OpOnly, Zenon DEF Op
<1>7. CASE ExpiryEnds(a)
  <2>1. Become(a, Idle) /\ Idle \in Op /\ Idle.pc = "idle"
    BY <1>7 DEF ExpiryEnds, Op, Idle
  <2> QED BY <1>1, <2>1, OpOnly
<1> QED BY <1>4, <1>5, <1>6, <1>7

\* Who acquires the lock reads the index; nobody else holds it.
LEMMA AcquireInv ==
  ASSUME IInv, NEW a \in Actor, acquire(a)
  PROVE  InvStep
<1> DEFINE new == [ops[a] EXCEPT !.held = TRUE, !.snap = index[ops[a].scope]]
<1>1. /\ ops[a] \in Op /\ ops[a].pc \in Sections /\ Become(a, new)
      /\ locks[ops[a].scope] = {} /\ locks' = [locks EXCEPT ![ops[a].scope] = {a}]
      /\ UNCHANGED <<files, index, nextId, returned, faults, now, crashes>>
      /\ TypeOK /\ LockInv(a) /\ OwnInv(a) /\ FileInv(a)
  BY DEF acquire, disk, world, IInv, TypeOK
<1>2. ops[a].scope \in Scope
  BY <1>1, Forms DEF Sections, WritePc, WriteOp, LockInv
<1>3. /\ new \in Op /\ new.pc = ops[a].pc /\ new.held /\ new.snap = index[ops[a].scope]
      /\ new.scope = ops[a].scope
      /\ ops[a].pc \in WritePc => new.refs = ops[a].refs /\ new.id = ops[a].id
  <2>1. index[ops[a].scope] \in SUBSET Record
    BY <1>1, <1>2 DEF TypeOK
  <2>2. CASE ops[a].pc \in WritePc
    BY <1>1, <2>1, <2>2, Forms, ZenonT(40) DEF Op, WriteOp
  <2>3. CASE ops[a].pc \in ExpiryPc
    BY <1>1, <2>1, <2>3, Forms, Zenon DEF Op, ExpiryOp, WritePc, ExpiryPc
  <2> QED BY <1>1, <2>2, <2>3, Forms DEF Sections, WritePc, ExpiryPc
<1> HIDE DEF new
<1>4. /\ Own(new) = Own(ops[a]) /\ Fresh(new) = Fresh(ops[a]) /\ Spilled(new) = Spilled(ops[a])
      /\ Doomed(new) = {} /\ Gone(new) = Gone(ops[a])
  BY <1>1, <1>3, Zenon DEF Own, Fresh, Spilled, Doomed, Gone, Sections, WritePc
<1>5. TypeOfDisk'
  BY <1>1, <1>2 DEF TypeOK, TypeOfDisk
<1>6. WorldStep(a)
  <2>1. \A b \in Actor \ {a} : Holds(ops[b]) => locks'[ops[b].scope] = locks[ops[b].scope]
    <3> SUFFICES ASSUME NEW b \in Actor \ {a}, Holds(ops[b])
                 PROVE  locks'[ops[b].scope] = locks[ops[b].scope]
      OBVIOUS
    <3>1. locks[ops[b].scope] = {b}
      BY DEF IInv, LockInv
    <3>2. ops[b].scope # ops[a].scope
      BY <1>1, <3>1
    <3> QED BY <1>1, <3>2 DEF TypeOK
  <2>2. nextId \in Nat /\ faults \in Nat
    BY <1>1 DEF TypeOK
  <2>3. \A s \in Scope : \A r, q \in index[s] : r.id = q.id => r = q
    BY DEF IInv, OneRow
  <2>4. \A r : Kept(r, r)
    BY DEF Kept
  <2>5. nextId' >= nextId /\ faults' >= faults
    BY <1>1, <2>2
  <2> QED BY <1>1, <2>1, <2>3, <2>4, <2>5, Zenon DEF WorldStep
<1>7. ops'[a] = new
  BY <1>1, Became, Zenon
<1>8. LockInv(a)'
  BY <1>1, <1>2, <1>3, <1>7, Zenon DEF LockInv, TypeOK
<1>9. OwnInv(a)' /\ FileInv(a)'
  <2>1. OwnInv(a)'
    BY <1>1, <1>3, <1>4, <1>7, Zenon DEF OwnInv
  <2>2. /\ ops'[a].pc = ops[a].pc /\ ops'[a].scope = ops[a].scope
        /\ ops[a].pc \in WritePc => ops'[a].refs = ops[a].refs /\ ops'[a].id = ops[a].id
        /\ Spilled(ops'[a]) = Spilled(ops[a]) /\ Doomed(ops'[a]) = {}
    BY <1>3, <1>4, <1>7, Zenon
  <2>3. "meta" \in WritePc /\ "index" \in WritePc
    BY SMTT(30) DEF WritePc
  <2>4. \A id \in Spilled(ops[a]) : Stored(id, ops[a].scope)
    BY <1>1 DEF FileInv
  <2>5. FileInv(a)'
    BY <1>1, <2>2, <2>3, <2>4, ZenonT(40) DEF FileInv, Stored
  <2> QED BY <2>1, <2>5
<1>10. \A id \in files' : id \in files
  BY <1>1
<1>11. CalmStep(a, new) /\ crashes' >= crashes
  <2>2. \A id : HasRow(id)' <=> HasRow(id)
    BY <1>1, Zenon DEF HasRow
  <2>3. CalmInv /\ Calm' => /\ Gone(ops[a]) \cap files = {}
                            /\ \A id \in Fresh(ops[a]) : ~HasRow(id)
    BY <1>1, Zenon DEF CalmInv, Calm, OwnInv, HasRow
  <2> QED BY <1>1, <1>4, <2>2, <2>3 DEF CalmStep, TypeOK
<1> QED BY <1>1, <1>3, <1>4, <1>5, <1>6, <1>8, <1>9, <1>10, <1>11, ActorStep, Zenon
-----------------------------------------------------------------------------
(* The files.                                                              *)

\* What an operation is after Rollback.
RolledBack(op) ==
  IF op.refs = << >> THEN [pc |-> "failed"]
  ELSE [op EXCEPT !.pc = "erase", !.held = FALSE, !.snap = {}, !.id = Head(op.refs),
                  !.refs = Tail(op.refs)]

\* It owns only what it owned.
LEMMA RolledBackOp ==
  ASSUME NEW op \in WriteOp
  PROVE  /\ RolledBack(op) \in Op /\ RolledBack(op).pc \in {"failed", "erase"}
         /\ RolledBack(op).pc = "erase" => /\ ~RolledBack(op).held
                                           /\ RolledBack(op).scope = op.scope
         /\ Own(RolledBack(op)) \subseteq Own(op)
         /\ Fresh(RolledBack(op)) = {} /\ Doomed(RolledBack(op)) = {}
         /\ Spilled(RolledBack(op)) = {} /\ Gone(RolledBack(op)) = {}
<1> DEFINE new == RolledBack(op)
<1>1. CASE op.refs = << >>
  <2>1. new = [pc |-> "failed"]
    BY <1>1 DEF RolledBack
  <2> HIDE DEF new
  <2>2. new \in Op /\ new.pc = "failed"
    BY <2>1 DEF Op, Failed
  <2>3. /\ Own(new) = {} /\ Fresh(new) = {} /\ Doomed(new) = {} /\ Spilled(new) = {}
        /\ Gone(new) = {}
    BY <2>2 DEF Own, Fresh, Doomed, Spilled, Gone, WritePc
  <2> QED BY <2>2, <2>3 DEF new
<1>2. CASE op.refs # << >>
  <2>1. /\ op.refs \in Seq(Nat) /\ Head(op.refs) \in Nat /\ Tail(op.refs) \in Seq(Nat)
        /\ Head(op.refs) \in Range(op.refs) /\ Range(Tail(op.refs)) \subseteq Range(op.refs)
    BY <1>2, RefsAsSets DEF WriteOp
  <2>2. new = [op EXCEPT !.pc = "erase", !.held = FALSE, !.snap = {}, !.id = Head(op.refs),
                         !.refs = Tail(op.refs)]
    BY <1>2 DEF RolledBack
  <2> HIDE DEF new
  <2>3. /\ new \in WriteOp /\ new.pc = "erase" /\ ~new.held /\ new.scope = op.scope
        /\ new.id = Head(op.refs) /\ new.refs = Tail(op.refs)
    BY <2>1, <2>2, Zenon DEF WriteOp, WritePc
  <2>4. op.pc \in WritePc
    BY DEF WriteOp
  <2>5. Own(new) \subseteq Own(op)
    BY <2>1, <2>3, <2>4 DEF Own
  <2>6. Fresh(new) = {} /\ Doomed(new) = {} /\ Spilled(new) = {} /\ Gone(new) = {}
    BY <2>3 DEF Fresh, Doomed, Spilled, Gone
  <2> QED BY <2>3, <2>5, <2>6 DEF Op, new
<1> QED BY <1>1, <1>2, Zenon

\* What is rolled back next has both its file and its row, or none.
CalmBack(a) ==
  CalmInv /\ Calm' =>
    \A id \in Own(ops[a]) :
      /\ id \in Fresh(ops[a]) /\ id \in files' => HasRow(id)'
      /\ HasRow(id) /\ id \in files' => HasRow(id)'
      /\ HasRow(id)' =>
           id \notin Gone(ops[a]) /\ (id \in files \cup Fresh(ops[a]) => id \in files')

\* Rolling back keeps the invariant, whatever the step did to the disk.
LEMMA RollbackInv ==
  ASSUME IInv, NEW a \in Actor, ops[a] \in WriteOp, Rollback(a, ops[a]), WorldStep(a),
         TypeOfDisk', faults' > 0, UNCHANGED returned, files' \subseteq files,
         \A s \in Scope : \A r \in index'[s] : \E q \in index[s] : q.id = r.id,
         CalmBack(a), UNCHANGED crashes
  PROVE  InvStep
<1> DEFINE new == RolledBack(ops[a])
<1>1. /\ new \in Op /\ new.pc \in {"failed", "erase"}
      /\ new.pc = "erase" => ~new.held
      /\ new.pc = "erase" => new.scope = ops[a].scope
      /\ Own(new) \subseteq Own(ops[a])
      /\ Fresh(new) = {} /\ Doomed(new) = {} /\ Spilled(new) = {} /\ Gone(new) = {}
  BY RolledBackOp, Zenon
<1>2. Become(a, new)
  BY DEF Rollback, RolledBack
<1> HIDE DEF new
<1>3. ops'[a] = new /\ OwnInv(a)
  BY <1>2, Zenon DEF Become, IInv, TypeOK
<1>4. LockInv(a)' /\ FileInv(a)'
  BY <1>1, <1>3, Zenon DEF LockInv, FileInv, Holds, Sections, WritePc, ExpiryPc
<1>5. OwnInv(a)'
  <2>1. \A id \in Own(new) : new.pc = "erase"
    BY <1>1, Zenon DEF Own, WritePc
  <2>2. \A id \in Own(new) : \A ref \in returned' : ref.id # id
    BY <1>1, <1>3, Zenon DEF OwnInv
  <2>3. \A s \in Scope : \A r \in index'[s] : r.id \in Own(new) => s = new.scope
    BY <1>1, <1>3, <2>1, Zenon DEF OwnInv
  <2> QED BY <1>1, <1>3, <2>2, <2>3 DEF OwnInv
<1>6. CalmStep(a, new)
  BY <1>1, Zenon DEF CalmStep, CalmBack
<1>7. crashes' >= crashes
  BY Counters
<1> QED BY <1>1, <1>2, <1>4, <1>5, <1>6, <1>7, ActorStep, Zenon

\* A new file has the next id, which nobody has.
LEMMA WriteFileInv ==
  ASSUME IInv, NEW a \in Actor, write_file_bytes(a)
  PROVE  InvStep
<1>1. /\ ops[a] \in Op /\ ops[a].pc = "file" /\ UNCHANGED <<index, locks, now, crashes, returned>>
      /\ TypeOK /\ Drawn /\ LockInv(a) /\ OwnInv(a) /\ FileInv(a)
  BY DEF write_file_bytes, IInv, TypeOK
<1>2. ops[a] \in WriteOp /\ ~ops[a].held
  BY <1>1, Forms, Zenon DEF WritePc, WriteOp, LockInv, Sections
<1>3. ASSUME nextId' = nextId + 1, files' = files \cup {nextId}, UNCHANGED faults,
             Become(a, [ops[a] EXCEPT !.pc = "index", !.id = nextId, !.created_at = now])
      PROVE  InvStep
  <2> DEFINE new == [ops[a] EXCEPT !.pc = "index", !.id = nextId, !.created_at = now]
  <2>1. nextId \in Nat /\ faults \in Nat /\ now \in Nat /\ crashes \in Nat
    BY <1>1 DEF TypeOK
  <2>2. /\ new \in WriteOp /\ new.pc = "index" /\ ~new.held /\ new.scope = ops[a].scope
        /\ new.id = nextId /\ new.refs = ops[a].refs
    BY <1>2, <2>1, Zenon DEF WriteOp, WritePc
  <2>3. Become(a, new)
    BY <1>3
  <2> HIDE DEF new
  <2>4. /\ Own(new) = Own(ops[a]) \cup {nextId} /\ Fresh(new) = {nextId} /\ Doomed(new) = {}
        /\ Spilled(new) = Spilled(ops[a]) /\ ~Holds(new)
    BY <1>1, <2>1, <2>2, Zenon DEF Own, Fresh, Doomed, Spilled, Holds, WritePc
  <2>5. TypeOfDisk'
    BY <1>1, <1>3, <2>1 DEF TypeOK, TypeOfDisk
  <2>6. WorldStep(a)
    <3>1. \A s \in Scope : \A r, q \in index[s] : r.id = q.id => r = q
      BY DEF IInv, OneRow
    <3> QED BY <1>1, <1>3, <2>1, <3>1 DEF WorldStep, Kept
  <2>7. ops'[a] = new
    BY <2>3, Became, Zenon
  <2>8. \A s \in Scope : \A r \in index[s] : r.id # nextId
    <3> SUFFICES ASSUME NEW s \in Scope, NEW r \in index[s] PROVE r.id # nextId
      OBVIOUS
    <3>1. r.id \in Nat /\ r.id < nextId
      BY <1>1 DEF TypeOK, Drawn, Record
    <3> QED BY <2>1, <3>1
  <2>9. \A ref \in returned : ref.id # nextId
    <3> SUFFICES ASSUME NEW ref \in returned PROVE ref.id # nextId
      OBVIOUS
    <3>1. ref.id \in Nat /\ ref.id < nextId
      BY <1>1 DEF TypeOK, Drawn
    <3> QED BY <2>1, <3>1
  <2>10. LockInv(a)'
    BY <2>2, <2>4, <2>7, Zenon DEF LockInv
  <2>11. OwnInv(a)'
    BY <1>1, <2>2, <2>4, <2>7, <2>8, <2>9, ZenonT(40) DEF OwnInv
  <2>12. FileInv(a)'
    BY <1>1, <1>3, <2>2, <2>4, <2>7 DEF FileInv, Stored
  <2>13. \A id \in files' : id \in files \/ id < nextId'
    BY <1>3, <2>1
  <2>14. nextId' > nextId
    BY <1>3, <2>1
  <2>15. CalmStep(a, new) /\ crashes' >= crashes
    <3>1. Fresh(ops[a]) = {} /\ Gone(ops[a]) = {} /\ Gone(new) = {}
      BY <1>1, <2>2, Zenon DEF Fresh, Gone
    <3>2. \A id : HasRow(id)' <=> HasRow(id)
      BY <1>1, Zenon DEF HasRow
    <3> QED BY <1>1, <1>3, <2>1, <2>4, <3>1, <3>2 DEF CalmStep
  <2> QED BY <2>2, <2>3, <2>4, <2>5, <2>6, <2>10, <2>11, <2>12, <2>13, <2>14, <2>15, ActorStep, Zenon
          DEF Op
<1>4. ASSUME Fault, Rollback(a, ops[a]), UNCHANGED <<files, nextId>>
      PROVE  InvStep
  <2>1. faults' \in Nat /\ faults' > 0 /\ faults' >= faults
    BY <1>1, <1>4 DEF Fault, TypeOK
  <2>2. WorldStep(a)
    BY <1>1, <1>4, <2>1, NoEffect
  <2>3. TypeOfDisk'
    BY <1>1, <1>4, <2>1 DEF TypeOK, TypeOfDisk
  <2>4. CalmBack(a)
    <3>1. Fresh(ops[a]) = {} /\ Gone(ops[a]) = {}
      BY <1>1, Zenon DEF Fresh, Gone
    <3>2. \A id : HasRow(id)' <=> HasRow(id)
      BY <1>1 DEF HasRow
    <3> QED BY <1>4, <3>1, <3>2 DEF CalmBack
  <2> QED BY <1>1, <1>2, <1>4, <2>1, <2>2, <2>3, <2>4, RollbackInv, Zenon
<1> QED BY <1>3, <1>4 DEF write_file_bytes

\* The deletion of a file that is owned, or whose row has a tombstone.
LEMMA DeletionStep ==
  ASSUME IInv, NEW a \in Actor, NEW id \in Own(ops[a]) \cup Doomed(ops[a]),
         UNCHANGED <<index, locks, world, returned>>,
         \/ files' = files \ {id} /\ UNCHANGED faults
         \/ Fault /\ UNCHANGED files
  PROVE  /\ WorldStep(a) /\ TypeOfDisk' /\ files' \subseteq files /\ files \ {id} \subseteq files'
         /\ faults' >= faults /\ faults' \in Nat
<1>1. TypeOK /\ faults \in Nat /\ nextId \in Nat /\ UNCHANGED <<now, nextId, crashes>>
  BY DEF IInv, TypeOK, world
<1>2. faults' \in Nat /\ faults' >= faults
  BY <1>1 DEF Fault
<1>3. files' \subseteq files /\ files \ {id} \subseteq files'
  OBVIOUS
<1>4. TypeOfDisk'
  BY <1>1, <1>2, <1>3 DEF TypeOK, TypeOfDisk
<1>5. WorldStep(a)
  <2>1. \A s \in Scope : \A r, q \in index[s] : r.id = q.id => r = q
    BY Zenon DEF IInv, OneRow
  <2>2. nextId' >= nextId
    BY <1>1
  <2>3. \A x \in files : x \in files' \cup Own(ops[a]) \cup Doomed(ops[a])
    BY <1>3, Zenon
  <2> QED BY <1>2, <2>1, <2>2, <2>3, Zenon DEF WorldStep, Kept
<1> QED BY <1>2, <1>3, <1>4, <1>5

\* The file of a record that was not indexed goes, then those of the refs before it.
LEMMA UnwriteInv ==
  ASSUME IInv, NEW a \in Actor, Unwrite(a)
  PROVE  InvStep
<1>1. /\ ops[a] \in Op /\ ops[a].pc = "unwrite" /\ FileInv(a) /\ Rollback(a, ops[a])
      /\ UNCHANGED <<index, locks, world, returned>> /\ faults \in Nat
  BY DEF Unwrite, IInv, TypeOK
<1>2. ops[a] \in WriteOp /\ ops[a].id \in Own(ops[a]) /\ faults > 0
  BY <1>1, Forms, Zenon DEF WritePc, WriteOp, Own, FileInv
<1>3. WorldStep(a) /\ TypeOfDisk' /\ files' \subseteq files /\ faults' >= faults /\ faults' \in Nat
  BY <1>1, <1>2, DeletionStep, Zenon DEF Unwrite
<1>4. faults' > 0 /\ UNCHANGED crashes
  BY <1>1, <1>2, <1>3 DEF world
<1>5. CalmBack(a)
  <2>1. CASE Fault
    BY <1>1, <1>2, <2>1 DEF Fault, CalmBack, Calm
  <2>2. CASE files' = files \ {ops[a].id}
    <3>1. Fresh(ops[a]) = {ops[a].id} /\ Gone(ops[a]) = {} /\ OwnInv(a)
      BY <1>1, <1>2, Owned, Zenon DEF Fresh, Gone, Own, IInv
    <3>2. \A id : HasRow(id)' <=> HasRow(id)
      BY <1>1 DEF HasRow
    <3>3. ~HasRow(ops[a].id)
      BY <3>1 DEF OwnInv, HasRow
    <3> QED BY <2>2, <3>1, <3>2, <3>3 DEF CalmBack
  <2> QED BY SMTT(30), <2>1, <2>2 DEF Unwrite
<1> QED BY <1>1, <1>2, <1>3, <1>4, <1>5, RollbackInv, Zenon

\* A file that is rolled back goes before its row.
LEMMA EraseInv ==
  ASSUME IInv, NEW a \in Actor, delete_artifact_bytes(a)
  PROVE  InvStep
<1> DEFINE new == [ops[a] EXCEPT !.pc = "unrecord"]
<1>1. /\ ops[a] \in Op /\ ops[a].pc = "erase" /\ LockInv(a) /\ OwnInv(a) /\ FileInv(a)
      /\ UNCHANGED <<index, locks, world, returned>> /\ faults \in Nat /\ Become(a, new)
  BY DEF delete_artifact_bytes, IInv, TypeOK
<1>2. /\ ops[a] \in WriteOp /\ ops[a].id \in Own(ops[a]) /\ faults > 0 /\ ~ops[a].held
  BY <1>1, Forms DEF WritePc, WriteOp, Own, FileInv, LockInv, Sections
<1>3. WorldStep(a) /\ TypeOfDisk' /\ files' \subseteq files /\ faults' >= faults /\ faults' \in Nat
  BY <1>1, <1>2, DeletionStep DEF delete_artifact_bytes
<1>4. /\ new \in WriteOp /\ new.pc = "unrecord" /\ ~new.held /\ new.scope = ops[a].scope
      /\ new.id = ops[a].id /\ new.refs = ops[a].refs
  BY <1>2, SMTT(30) DEF WriteOp, WritePc
<1> HIDE DEF new
<1>5. /\ Own(new) = Own(ops[a]) /\ Fresh(new) = {} /\ Doomed(new) = {} /\ Spilled(new) = {}
      /\ ~Holds(new)
  BY <1>1, <1>4, Zenon DEF Own, Fresh, Doomed, Spilled, Holds, WritePc
<1>6. ops'[a] = new
  BY <1>1, Became, Zenon
<1>0. faults' > 0
  BY <1>1, <1>2, <1>3
<1>7. (LockInv(a) /\ OwnInv(a) /\ FileInv(a))'
  BY <1>0, <1>1, <1>4, <1>5, <1>6, Zenon DEF LockInv, OwnInv, FileInv
<1>8. crashes' >= crashes
  BY <1>1, Counters DEF world
<1>9. CalmStep(a, new)
  <2>1. CASE Fault
    <3>1. faults' > 1
      BY <1>1, <1>2, <2>1 DEF Fault
    <3> QED BY <1>3, <3>1, SecondError
  <2>2. CASE files' = files \ {ops[a].id}
    <3>1. /\ Fresh(ops[a]) = {} /\ Gone(ops[a]) = {} /\ Gone(new) = {ops[a].id}
      BY <1>1, <1>2, <1>4, Zenon DEF Fresh, Gone, Own
    <3>2. \A id : HasRow(id)' <=> HasRow(id)
      BY <1>1, Zenon DEF HasRow
    <3> QED BY <2>2, <3>1, <3>2 DEF CalmStep
  <2> QED BY <2>1, <2>2 DEF delete_artifact_bytes
<1> QED BY <1>1, <1>3, <1>4, <1>5, <1>7, <1>8, <1>9, ActorStep, Zenon DEF Op

\* An expiry deletes files whose rows have tombstones.
LEMMA DeleteInv ==
  ASSUME IInv, NEW a \in Actor, delete_artifact(a)
  PROVE  InvStep
<1>1. /\ ops[a] \in Op /\ ops[a].pc = "delete" /\ LockInv(a) /\ OwnInv(a) /\ FileInv(a) /\ TypeOK
      /\ UNCHANGED <<index, locks, world, returned>>
  BY DEF delete_artifact, IInv, TypeOK
<1>2. ops[a] \in ExpiryOp /\ ~ops[a].held
  BY <1>1, Forms, Zenon DEF ExpiryPc, ExpiryOp, LockInv, Sections
<1>3. Idle \in Op /\ Idle.pc = "idle"
  BY DEF Op, Idle
<1>4. ASSUME NEW new \in Op, Become(a, new), WorldStep(a), TypeOfDisk', files' \subseteq files,
             new.pc \in {"idle", "delete", "scope"}, new.pc # "idle" => ~new.held,
             Doomed(new) \subseteq Doomed(ops[a])
      PROVE  InvStep
  <2>1. Own(new) = {} /\ Fresh(new) = {} /\ Spilled(new) = {} /\ ~Holds(new)
    BY <1>4, Zenon DEF Own, Fresh, Spilled, Holds, WritePc, Sections
  <2>2. ops'[a] = new
    BY <1>4, Became, Zenon
  <2>3. (LockInv(a) /\ OwnInv(a) /\ FileInv(a))'
    BY <1>1, <1>4, <2>1, <2>2, ZenonT(40) DEF LockInv, OwnInv, FileInv, WritePc, ExpiryPc
  <2>4. Own(ops[a]) = {} /\ Gone(new) = {}
    BY <1>1, <1>4, Zenon DEF Own, Gone, WritePc
  <2>5. CalmStep(a, new)
    BY <1>4, <2>4, CalmOwnsNothing, Zenon
  <2>6. crashes' >= crashes
    BY <1>1 DEF world, TypeOK
  <2> QED BY <1>4, <2>1, <2>3, <2>5, <2>6, ActorStep, Zenon
<1>5. CASE \E id \in ops[a].deletions :
             \/ /\ files' = files \ {id}
                /\ Become(a, [ops[a] EXCEPT !.deletions = @ \ {id}])
                /\ UNCHANGED faults
             \/ Fault /\ Become(a, Idle) /\ UNCHANGED files
  <2>1. PICK id \in ops[a].deletions :
             \/ /\ files' = files \ {id}
                /\ Become(a, [ops[a] EXCEPT !.deletions = @ \ {id}])
                /\ UNCHANGED faults
             \/ Fault /\ Become(a, Idle) /\ UNCHANGED files
    BY <1>5
  <2>2. id \in Doomed(ops[a])
    BY <1>1, <1>2 DEF Doomed, ExpiryOp
  <2>3. WorldStep(a) /\ TypeOfDisk' /\ files' \subseteq files
    BY <1>1, <2>1, <2>2, DeletionStep
  <2>4. CASE Become(a, [ops[a] EXCEPT !.deletions = @ \ {id}])
    <3> DEFINE new == [ops[a] EXCEPT !.deletions = @ \ {id}]
    <3>1. new \in ExpiryOp /\ new.pc = "delete" /\ ~new.held /\ new.deletions = ops[a].deletions \ {id}
      BY <1>1, <1>2 DEF ExpiryOp
    <3>2. Become(a, new)
      BY <2>4
    <3> HIDE DEF new
    <3>3. Doomed(new) \subseteq Doomed(ops[a])
      BY <1>1, <3>1, Zenon DEF Doomed
    <3> QED BY <2>3, <3>1, <3>2, <3>3, <1>4 DEF Op
  <2>5. CASE Become(a, Idle)
    <3>1. Doomed(Idle) = {}
      BY <1>3 DEF Doomed
    <3> QED BY <2>3, <2>5, <3>1, <1>3, <1>4
  <2> QED BY <2>1, <2>4, <2>5
<1>6. CASE Become(a, [ops[a] EXCEPT !.pc = "scope"]) /\ UNCHANGED <<files, faults>>
  <2> DEFINE new == [ops[a] EXCEPT !.pc = "scope"]
  <2>1. new \in ExpiryOp /\ new.pc = "scope" /\ ~new.held
    BY <1>2 DEF ExpiryOp, ExpiryPc
  <2>2. Become(a, new)
    BY <1>6
  <2> HIDE DEF new
  <2>3. Doomed(new) = {}
    BY <2>1 DEF Doomed
  <2>4. UNCHANGED <<now, nextId, crashes>> /\ faults' \in Nat /\ faults' >= faults
    BY <1>1, <1>6 DEF world, TypeOK
  <2>5. WorldStep(a) /\ TypeOfDisk'
    BY <1>1, <1>6, <2>4, NoEffect DEF TypeOK, TypeOfDisk
  <2> QED BY <1>6, <2>1, <2>2, <2>3, <2>5, <1>4 DEF Op
<1> QED BY <1>5, <1>6 DEF delete_artifact
=============================================================================
