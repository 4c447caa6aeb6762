-------------------------- MODULE ArtifactsProofs ---------------------------
(***************************************************************************)
(* The steps that read and rewrite an index, and what follows for the      *)
(* store: what was answered is stored, nothing is left behind, and an      *)
(* artifact is found in its own context.                                   *)
(***************************************************************************)
EXTENDS ArtifactsFileProofs

-----------------------------------------------------------------------------
(* The indexes.                                                            *)

\* Who has the lock replaces the rows that are there; the others' rows stay.
LEMMA IndexStep ==
  ASSUME IInv, NEW a \in Actor, Holds(ops[a]), NEW records \in SUBSET Record,
         WriteIndex(a, records),
         \A r \in records : r.id \in Fresh(ops[a]) \/ \E q \in ops[a].snap : Kept(q, r),
         \A r, q \in records : r.id = q.id => r = q,
         \A r \in ops[a].snap : r.id \in Own(ops[a]) \/ \E q \in records : Kept(r, q),
         returned' \in SUBSET [id : Nat, scope : Scope],
         \A ref \in returned' :
           ref \in returned \/ (ref.id \in Own(ops[a]) /\ Stored(ref.id, ref.scope)')
  PROVE  /\ WorldStep(a) /\ TypeOfDisk' /\ ops[a].scope \in Scope
         /\ index'[ops[a].scope] = records /\ index[ops[a].scope] = ops[a].snap
         /\ \A s \in Scope \ {ops[a].scope} : index'[s] = index[s]
         /\ UNCHANGED <<files, now, nextId, crashes, faults>>
<1> DEFINE scope == ops[a].scope
<1>1. /\ TypeOK /\ LockInv(a) /\ locks[scope] = {a} /\ ops[a].snap = index[scope]
      /\ UNCHANGED <<files, now, nextId, crashes, faults>>
      /\ index' = [index EXCEPT ![scope] = records] /\ locks' = [locks EXCEPT ![scope] = {}]
  BY Zenon DEF IInv, LockInv, WriteIndex, world
<1>2. scope \in Scope
  BY <1>1, Forms DEF TypeOK, Holds, Sections, WritePc, WriteOp, LockInv
<1>3. index'[scope] = records /\ \A s \in Scope \ {scope} : index'[s] = index[s]
  BY <1>1, <1>2 DEF TypeOK
<1>4. TypeOfDisk'
  BY <1>1, <1>2 DEF TypeOK, TypeOfDisk
<1>5. \A b \in Actor \ {a} : Holds(ops[b]) =>
        locks'[ops[b].scope] = locks[ops[b].scope] /\ index'[ops[b].scope] = index[ops[b].scope]
  <2> SUFFICES ASSUME NEW b \in Actor \ {a}, Holds(ops[b])
               PROVE  /\ locks'[ops[b].scope] = locks[ops[b].scope]
                      /\ index'[ops[b].scope] = index[ops[b].scope]
    BY Zenon
  <2>1. locks[ops[b].scope] = {b}
    BY Zenon DEF IInv, LockInv
  <2>2. ops[b].scope # scope
    BY <1>1, <2>1
  <2> QED BY <1>1, <2>2 DEF TypeOK
<1>6. \A s \in Scope : \A r \in index'[s] :
        /\ (r.id \in Fresh(ops[a]) /\ s = scope) \/ \E q \in index[s] : Kept(q, r)
        /\ \A q \in index'[s] : q.id = r.id => q = r
  <2> SUFFICES ASSUME NEW s \in Scope, NEW r \in index'[s]
               PROVE  /\ (r.id \in Fresh(ops[a]) /\ s = scope) \/ \E q \in index[s] : Kept(q, r)
                      /\ \A q \in index'[s] : q.id = r.id => q = r
    OBVIOUS
  <2>1. CASE s = scope
    BY <1>1, <1>3, <2>1, Zenon
  <2>2. CASE s # scope
    BY <1>3, <2>2 DEF Kept, IInv, OneRow
  <2> QED BY <2>1, <2>2, Zenon
<1>7. \A s \in Scope : \A r \in index[s] :
        r.id \in Own(ops[a]) \/ \E q \in index'[s] : Kept(r, q)
  <2> SUFFICES ASSUME NEW s \in Scope, NEW r \in index[s]
               PROVE  r.id \in Own(ops[a]) \/ \E q \in index'[s] : Kept(r, q)
    OBVIOUS
  <2>1. CASE s = scope
    BY <1>1, <1>3, <2>1, Zenon
  <2>2. CASE s # scope
    BY <1>3, <2>2 DEF Kept
  <2> QED BY <2>1, <2>2, Zenon
<1>8. nextId' >= nextId /\ faults' >= faults
  BY <1>1 DEF TypeOK
<1>9. WorldStep(a)
  BY <1>1, <1>5, <1>6, <1>7, <1>8, Zenon DEF WorldStep
<1> QED BY <1>1, <1>2, <1>3, <1>4, <1>9, Zenon

\* An index that is not read or not written stays as it was, and its lock is free.
LEMMA IndexFailsStep ==
  ASSUME IInv, NEW a \in Actor, IndexFails(a)
  PROVE  /\ WorldStep(a) /\ TypeOfDisk' /\ faults' > 0 /\ faults' = faults + 1
         /\ UNCHANGED <<files, index, now, nextId, crashes, returned>>
<1>1. /\ TypeOK /\ faults' = faults + 1 /\ locks' = [s \in Scope |-> locks[s] \ {a}]
      /\ UNCHANGED <<files, index, now, nextId, crashes, returned>>
  BY Zenon DEF IInv, IndexFails, Fault, disk, world
<1>2. faults \in Nat /\ faults' \in Nat /\ faults' > 0 /\ faults' >= faults /\ nextId \in Nat
  BY <1>1 DEF TypeOK
<1>3. TypeOfDisk'
  BY <1>1, <1>2 DEF TypeOK, TypeOfDisk
<1>4. \A b \in Actor \ {a} : Holds(ops[b]) => locks'[ops[b].scope] = locks[ops[b].scope]
  <2> SUFFICES ASSUME NEW b \in Actor \ {a}, Holds(ops[b])
               PROVE  locks'[ops[b].scope] = locks[ops[b].scope]
    OBVIOUS
  <2>1. locks[ops[b].scope] = {b} /\ LockInv(b) /\ ops[b] \in Op
    BY <1>1, Zenon DEF IInv, LockInv, TypeOK
  <2>2. ops[b].scope \in Scope
    BY <2>1, Forms, Zenon DEF Holds, Sections, WritePc, WriteOp, LockInv
  <2> QED BY <1>1, <2>1, <2>2
<1>5. \A s \in Scope : \A r, q \in index[s] : r.id = q.id => r = q
  BY DEF IInv, OneRow
<1>6. WorldStep(a)
  BY <1>1, <1>2, <1>4, <1>5, SMTT(30) DEF WorldStep, Kept
<1> QED BY <1>1, <1>2, <1>3, <1>6, Zenon

\* While no row goes and no file changes, a step that leaves nothing fresh without a row
\* keeps files and rows together.
LEMMA CalmIndex ==
  ASSUME IInv, NEW a \in Actor, NEW new, files' = files, Gone(new) = {}, Gone(ops[a]) = {},
         \A s \in Scope : \A r \in index[s] : \E q \in index'[s] : q.id = r.id,
         \A id \in Fresh(ops[a]) : id \in files /\ (id \in Fresh(new) \/ HasRow(id)')
  PROVE  CalmStep(a, new)
<1>1. \A id : HasRow(id) => HasRow(id)'
  BY DEF HasRow
<1> QED BY <1>1 DEF CalmStep

\* A record is added to its index: a direct write is answered, a spill goes on; or its
\* file is to be deleted.
LEMMA IndexRecordInv ==
  ASSUME IInv, NEW a \in Actor, IndexRecord(a)
  PROVE  InvStep
<1>0. PICK op : op = ops[a]
  OBVIOUS
<1> USE <1>0
<1> DEFINE row == LocalArtifactRecord(op)
           records == op.snap \cup {row}
<1>1. /\ op \in Op /\ op.pc = "index" /\ TypeOK /\ LockInv(a) /\ OwnInv(a) /\ FileInv(a)
  BY DEF IndexRecord, IInv, TypeOK
<1>2. op \in WriteOp /\ op.id \in Nat /\ op.scope \in Scope /\ op.refs \in Seq(Nat)
      /\ op.snap \in SUBSET Record
  BY <1>1, Forms, Zenon DEF WritePc, WriteOp
<1>3. /\ Own(op) = Range(op.refs) \cup {op.id} /\ Fresh(op) = {op.id}
      /\ Spilled(op) = Range(op.refs) /\ Range(op.refs) \subseteq Nat
  <2>1. Range(op.refs) \subseteq Nat
    BY <1>2 DEF Range
  <2> QED BY <1>1, <1>2, <2>1 DEF Own, Fresh, Spilled, WritePc
<1>4. ASSUME op.held, WriteIndex(a, records), 
             IF op.spill
             THEN /\ Become(a, [op EXCEPT !.pc = "meta", !.held = FALSE, !.snap = {},
                                          !.refs = Append(@, op.id)])
                  /\ UNCHANGED returned
             ELSE Become(a, Idle) /\ returned' = returned \cup {[id |-> op.id, scope |-> op.scope]}
      PROVE  InvStep
  <2>1. row \in Record /\ row.id = op.id
    BY <1>2 DEF LocalArtifactRecord, WriteOp, Record
  <2> HIDE DEF row
  <2>2. Holds(op) /\ op.snap = index[op.scope]
    BY <1>1, <1>4 DEF Holds, Sections, LockInv
  <2>3. \A r \in op.snap : r.id # op.id
    BY <1>1, <1>2, <1>3, <2>2 DEF OwnInv
  <2>4. /\ records \in SUBSET Record
        /\ \A r \in records : r.id \in Fresh(op) \/ \E q \in op.snap : Kept(q, r)
        /\ \A r \in op.snap : \E q \in records : Kept(r, q)
    BY <1>2, <1>3, <2>1, Zenon DEF Kept
  <2>5. \A r, q \in records : r.id = q.id => r = q
    <3>1. \A r, q \in op.snap : r.id = q.id => r = q
      BY <1>2, <2>2 DEF IInv, OneRow
    <3> QED BY <2>1, <2>3, <3>1
  <2>6. index' = [index EXCEPT ![op.scope] = records] /\ files' = files
    BY <1>4 DEF WriteIndex
  <2>7. index'[op.scope] = records
    BY <1>1, <1>2, <2>6 DEF TypeOK
  <2>8. Stored(op.id, op.scope)'
    BY <1>1, <2>1, <2>6, <2>7 DEF Stored, FileInv
  <2>9. /\ returned' \in SUBSET [id : Nat, scope : Scope]
        /\ \A ref \in returned' :
             ref \in returned \/ (ref.id \in Own(op) /\ Stored(ref.id, ref.scope)')
    BY <1>1, <1>2, <1>3, <1>4, <2>8 DEF TypeOK
  <2> HIDE DEF records
  <2>10. /\ WorldStep(a) /\ TypeOfDisk'
         /\ \A s \in Scope \ {op.scope} : index'[s] = index[s]
    BY <1>4, <2>2, <2>4, <2>5, <2>9, IndexStep
  <2>11. \A id \in files' : id \in files
    BY <2>6
  <2>c. ASSUME NEW new, new.pc # "unrecord"
        PROVE  CalmStep(a, new) /\ crashes' >= crashes
    <3>1. Gone(op) = {} /\ Gone(new) = {}
      BY <1>1, <2>c DEF Gone
    <3>2. \A s \in Scope : \A r \in index[s] : \E q \in index'[s] : q.id = r.id
      BY <2>2, <2>4, <2>7, <2>10, ZenonT(40) DEF Kept
    <3>3. HasRow(op.id)' /\ op.id \in files
      BY <1>1, <1>2, <2>8 DEF Stored, HasRow, FileInv
    <3>4. crashes' >= crashes
      BY <1>1, <1>4 DEF WriteIndex, world, TypeOK
    <3> QED BY <1>3, <2>6, <3>1, <3>2, <3>3, <3>4, CalmIndex
  <2>12. CASE op.spill
    <3> DEFINE new == [op EXCEPT !.pc = "meta", !.held = FALSE, !.snap = {},
                                 !.refs = Append(@, op.id)]
    <3>1. Append(op.refs, op.id) \in Seq(Nat)
          /\ Range(Append(op.refs, op.id)) = Range(op.refs) \cup {op.id}
      BY <1>2, RefsAsSets
    <3>2. /\ new \in WriteOp /\ new.pc = "meta" /\ ~new.held /\ new.scope = op.scope
          /\ new.id = op.id /\ new.refs = Append(op.refs, op.id)
      BY <1>2, <3>1, Zenon DEF WriteOp, WritePc
    <3>3. Become(a, new) /\ UNCHANGED returned
      BY <1>4, <2>12
    <3> HIDE DEF new
    <3>4. /\ Own(new) = Own(op) /\ Fresh(new) = {} /\ Doomed(new) = {} /\ ~Holds(new)
          /\ Spilled(new) = Range(op.refs) \cup {op.id}
      BY <1>2, <1>3, <3>1, <3>2 DEF Own, Fresh, Doomed, Holds, Spilled, WritePc
    <3>5. ops'[a] = new
      BY <1>1, <3>3 DEF Become, TypeOK
    <3>6. LockInv(a)'
      BY <3>2, <3>4, <3>5 DEF LockInv
    <3>7. OwnInv(a)'
      <4>1. \A s \in Scope : \A r \in index'[s] : r.id \in Own(op) => s = op.scope
        BY <1>1, <2>10, Zenon DEF OwnInv
      <4> QED BY <1>1, <3>2, <3>3, <3>4, <3>5, <4>1 DEF OwnInv
    <3>8. \A id \in Spilled(new) : Stored(id, op.scope)'
      <4> SUFFICES ASSUME NEW id \in Range(op.refs) PROVE Stored(id, op.scope)'
        BY <2>8, <3>4
      <4>1. PICK r \in op.snap : r.id = id /\ (id \in files \/ r.tombstone # {})
        BY <1>1, <1>3, <2>2 DEF FileInv, Stored
      <4> QED BY <4>1, <2>4, <2>6, <2>7 DEF Stored, Kept
    <3>9. FileInv(a)'
      BY <3>1, <3>2, <3>4, <3>5, <3>8, Zenon DEF FileInv
    <3>10. CalmStep(a, new) /\ crashes' >= crashes
      BY <2>c, <3>2
    <3> QED BY <2>10, <2>11, <3>2, <3>3, <3>4, <3>6, <3>7, <3>9, <3>10, ActorStep, Zenon DEF Op
  <2>13. CASE ~op.spill
    <3>1. Idle \in Op /\ Idle.pc = "idle" /\ Become(a, Idle)
      BY <1>4, <2>13 DEF Op, Idle
    <3>2. /\ Own(Idle) = {} /\ Fresh(Idle) = {} /\ Doomed(Idle) = {} /\ Spilled(Idle) = {}
          /\ ~Holds(Idle)
      BY <3>1 DEF Own, Fresh, Doomed, Spilled, Holds, WritePc, Sections
    <3>3. ops'[a] = Idle
      BY <1>1, <3>1 DEF Become, TypeOK
    <3>4. (LockInv(a) /\ OwnInv(a) /\ FileInv(a))'
      BY <3>1, <3>2, <3>3, Zenon DEF LockInv, OwnInv, FileInv, WritePc, ExpiryPc
    <3>5. CalmStep(a, Idle) /\ crashes' >= crashes
      BY <2>c, <3>1
    <3> QED BY <2>10, <2>11, <3>1, <3>2, <3>4, <3>5, ActorStep, Zenon
  <2> QED BY <2>12, <2>13
<1>5. ASSUME IndexFails(a), Become(a, [op EXCEPT !.pc = "unwrite", !.held = FALSE, !.snap = {}])
      PROVE  InvStep
  <2> DEFINE new == [op EXCEPT !.pc = "unwrite", !.held = FALSE, !.snap = {}]
  <2>1. /\ WorldStep(a) /\ TypeOfDisk' /\ faults' > 0
        /\ UNCHANGED <<files, index, now, nextId, crashes, returned>>
    BY <1>5, IndexFailsStep
  <2>2. /\ new \in WriteOp /\ new.pc = "unwrite" /\ ~new.held /\ new.scope = op.scope
        /\ new.id = op.id /\ new.refs = op.refs
    BY <1>2, Zenon DEF WriteOp, WritePc
  <2>3. Become(a, new)
    BY <1>5
  <2> HIDE DEF new
  <2>4. /\ Own(new) = Own(op) /\ Fresh(new) = Fresh(op) /\ Doomed(new) = {} /\ ~Holds(new)
        /\ Spilled(new) = {}
    BY <1>1, <2>2, Zenon DEF Own, Fresh, Doomed, Holds, Spilled, WritePc
  <2>5. ops'[a] = new
    BY <1>1, <2>3 DEF Become, TypeOK
  <2>6. (LockInv(a) /\ OwnInv(a) /\ FileInv(a))'
    BY <1>1, <2>1, <2>2, <2>4, <2>5, Zenon DEF LockInv, OwnInv, FileInv
  <2>7. CalmStep(a, new)
    <3>1. Gone(op) = {} /\ Gone(new) = {}
      BY <1>1, <2>2, Zenon DEF Gone
    <3>2. op.id \in files
      BY <1>1 DEF FileInv
    <3> QED BY <1>3, <2>1, <2>4, <3>1, <3>2, CalmIndex, Zenon
  <2>8. crashes' >= crashes
    BY <1>1, <2>1 DEF TypeOK
  <2> QED BY <2>1, <2>2, <2>3, <2>4, <2>6, <2>7, <2>8, ActorStep, Zenon DEF Op
<1> QED BY <1>4, <1>5 DEF IndexRecord

\* The row of a spilled field is marked; after the last field the refs are answered.
LEMMA UpdateRecordInv ==
  ASSUME IInv, NEW a \in Actor, update_record_bytes(a)
  PROVE  InvStep
<1>0. PICK op : op = ops[a]
  OBVIOUS
<1> USE <1>0
<1> DEFINE row == {r \in op.snap : r.id = op.id}
           Marked(r) == [r EXCEPT !.spilled = TRUE]
           records == (op.snap \ row) \cup {Marked(r) : r \in row}
           more == [op EXCEPT !.pc = "file", !.held = FALSE, !.snap = {}, !.left = @ - 1]
           ended == {[id |-> id, scope |-> op.scope] : id \in Range(op.refs)}
<1>1. /\ op \in Op /\ op.pc = "meta" /\ TypeOK /\ LockInv(a) /\ OwnInv(a) /\ FileInv(a)
  BY DEF update_record_bytes, IInv, TypeOK
<1>2. op \in WriteOp /\ op.id \in Nat /\ op.scope \in Scope /\ op.snap \in SUBSET Record
  BY <1>1, Forms DEF WritePc, WriteOp
<1>3. /\ Own(op) = Range(op.refs) /\ Spilled(op) = Range(op.refs) /\ Range(op.refs) \subseteq Nat
      /\ op.id \in Range(op.refs)
  <2>1. Range(op.refs) \subseteq Nat
    BY <1>2 DEF Range, WriteOp
  <2> QED BY <1>1, <1>2, <2>1 DEF Own, Spilled, WritePc, FileInv
<1>4. ASSUME op.held, WriteIndex(a, records),
             IF row = {} THEN Rollback(a, op) /\ UNCHANGED returned
             ELSE IF op.left > 1 THEN Become(a, more) /\ UNCHANGED returned
             ELSE Become(a, Idle) /\ returned' = returned \cup ended
      PROVE  InvStep
  <2>1. Holds(op) /\ op.snap = index[op.scope]
    BY <1>1, <1>4 DEF Holds, Sections, LockInv
  <2>2. row # {}
    BY <1>1, <1>3, <2>1, Zenon DEF FileInv, Stored
  <2>3. \A r \in op.snap : /\ Marked(r) \in Record /\ Marked(r).id = r.id
                           /\ Marked(r).tombstone = r.tombstone
    BY <1>2, Zenon DEF Record
  <2> HIDE DEF Marked
  <2>4. /\ records \in SUBSET Record
        /\ \A r \in records : \E q \in op.snap : Kept(q, r)
        /\ \A r \in op.snap : \E q \in records : Kept(r, q)
    <3>1. \A r \in records : r \in op.snap \/ \E q \in row : r = Marked(q)
      OBVIOUS
    <3>2. \A r \in op.snap : r \in records \/ Marked(r) \in records
      OBVIOUS
    <3> HIDE DEF records
    <3> QED BY <1>2, <2>3, <3>1, <3>2 DEF Kept
  <2>5. \A r, q \in records : r.id = q.id => r = q
    <3>1. \A r, q \in op.snap : r.id = q.id => r = q
      BY <1>2, <2>1 DEF IInv, OneRow
    <3>2. \A r \in records : \/ r \in op.snap /\ r.id # op.id
                             \/ \E q \in op.snap : /\ q.id = op.id /\ r.id = op.id
                                                   /\ r = Marked(q)
      BY <2>3
    <3> HIDE DEF records
    <3> QED BY <3>1, <3>2
  <2> HIDE DEF records
  <2>6. index' = [index EXCEPT ![op.scope] = records] /\ files' = files
    BY <1>4 DEF WriteIndex
  <2>7. index'[op.scope] = records
    BY <1>1, <1>2, <2>6 DEF TypeOK
  <2>8. \A id \in Range(op.refs) : Stored(id, op.scope)'
    <3> TAKE id \in Range(op.refs)
    <3>1. PICK r \in op.snap : r.id = id /\ (id \in files \/ r.tombstone # {})
      BY <1>1, <1>3, <2>1, ZenonT(40) DEF FileInv, Stored
    <3> QED BY <3>1, <2>4, <2>6, <2>7 DEF Stored, Kept
  <2>9. /\ returned' \in SUBSET [id : Nat, scope : Scope]
        /\ \A ref \in returned' :
             ref \in returned \/ (ref.id \in Own(op) /\ Stored(ref.id, ref.scope)')
    BY <1>1, <1>2, <1>3, <1>4, <2>2, <2>8 DEF TypeOK
  <2>10. /\ WorldStep(a) /\ TypeOfDisk'
         /\ \A s \in Scope \ {op.scope} : index'[s] = index[s]
    BY <1>4, <2>1, <2>4, <2>5, <2>9, IndexStep
  <2>11. \A id \in files' : id \in files
    BY <2>6
  <2>c. ASSUME NEW new, new.pc # "unrecord"
        PROVE  CalmStep(a, new) /\ crashes' >= crashes
    <3>1. Gone(op) = {} /\ Gone(new) = {} /\ Fresh(op) = {}
      BY <1>1, <2>c DEF Gone, Fresh
    <3>2. \A s \in Scope : \A r \in index[s] : \E q \in index'[s] : q.id = r.id
      BY <2>1, <2>4, <2>7, <2>10 DEF Kept
    <3>3. crashes' >= crashes
      BY <1>1, <1>4 DEF WriteIndex, world, TypeOK
    <3> QED BY <2>6, <3>1, <3>2, <3>3, CalmIndex
  <2>12. CASE op.left > 1
    <3>0. op.left - 1 \in Int
      BY <1>2 DEF WriteOp
    <3>1. /\ more \in WriteOp /\ more.pc = "file" /\ ~more.held /\ more.scope = op.scope
          /\ more.refs = op.refs
      BY <1>2, <3>0, Zenon DEF WriteOp, WritePc
    <3>2. Become(a, more) /\ UNCHANGED returned
      BY <1>4, <2>2, <2>12
    <3> HIDE DEF more
    <3>3. /\ Own(more) = Own(op) /\ Fresh(more) = {} /\ Doomed(more) = {} /\ ~Holds(more)
          /\ Spilled(more) = Range(op.refs)
      BY <1>3, <3>1 DEF Own, Fresh, Doomed, Holds, Spilled, WritePc
    <3>4. ops'[a] = more
      BY <1>1, <3>2 DEF Become, TypeOK
    <3>5. LockInv(a)' /\ FileInv(a)'
      BY <2>8, <3>1, <3>3, <3>4, Zenon DEF LockInv, FileInv
    <3>6. OwnInv(a)'
      <4>1. \A s \in Scope : \A r \in index'[s] : r.id \in Own(op) => s = op.scope
        BY <1>1, <2>10, Zenon DEF OwnInv
      <4> QED BY <1>1, <3>1, <3>2, <3>3, <3>4, <4>1, Zenon DEF OwnInv
    <3>7. CalmStep(a, more) /\ crashes' >= crashes
      BY <2>c, <3>1
    <3> QED BY <2>10, <2>11, <3>1, <3>2, <3>3, <3>5, <3>6, <3>7, ActorStep, Zenon DEF Op
  <2>13. CASE ~(op.left > 1)
    <3>1. Idle \in Op /\ Idle.pc = "idle" /\ Become(a, Idle)
      BY <1>4, <2>2, <2>13 DEF Op, Idle
    <3>2. /\ Own(Idle) = {} /\ Fresh(Idle) = {} /\ Doomed(Idle) = {} /\ Spilled(Idle) = {}
          /\ ~Holds(Idle)
      BY <3>1 DEF Own, Fresh, Doomed, Spilled, Holds, WritePc, Sections
    <3>3. ops'[a] = Idle
      BY <1>1, <3>1 DEF Become, TypeOK
    <3>4. (LockInv(a) /\ OwnInv(a) /\ FileInv(a))'
      BY <3>1, <3>2, <3>3, Zenon DEF LockInv, OwnInv, FileInv, WritePc, ExpiryPc
    <3>5. CalmStep(a, Idle) /\ crashes' >= crashes
      BY <2>c, <3>1
    <3> QED BY <2>10, <2>11, <3>1, <3>2, <3>4, <3>5, ActorStep
  <2> QED BY <2>12, <2>13
<1>5. ASSUME IndexFails(a), Rollback(a, op)
      PROVE  InvStep
  <2>1. /\ WorldStep(a) /\ TypeOfDisk' /\ faults' > 0
        /\ UNCHANGED <<files, index, now, nextId, crashes, returned>>
    BY <1>5, IndexFailsStep
  <2>2. CalmBack(a)
    <3>1. Fresh(op) = {} /\ Gone(op) = {}
      BY <1>1 DEF Fresh, Gone
    <3>2. \A id : HasRow(id)' <=> HasRow(id)
      BY <2>1 DEF HasRow
    <3> QED BY <2>1, <3>1, <3>2 DEF CalmBack
  <2> QED BY <1>2, <1>5, <2>1, <2>2, RollbackInv, Zenon
<1> QED BY <1>4, <1>5 DEF update_record_bytes

\* The row of a ref that is rolled back is removed.
LEMMA RemoveRecordInv ==
  ASSUME IInv, NEW a \in Actor, remove_record_bytes(a)
  PROVE  InvStep
<1>0. PICK op : op = ops[a]
  OBVIOUS
<1> USE <1>0
<1> DEFINE records == {r \in op.snap : r.id # op.id}
<1>1. /\ op \in Op /\ op.pc = "unrecord" /\ TypeOK /\ LockInv(a) /\ FileInv(a) /\ Rollback(a, op)
  BY Zenon DEF remove_record_bytes, IInv, TypeOK
<1>2. /\ op \in WriteOp /\ op.id \in Own(op) /\ op.scope \in Scope /\ op.snap \in SUBSET Record
      /\ faults > 0
  BY <1>1, Forms, Zenon DEF WritePc, WriteOp, Own, FileInv
<1>3. ASSUME op.held, WriteIndex(a, records), UNCHANGED returned
      PROVE  InvStep
  <2>1. Holds(op) /\ op.snap = index[op.scope]
    BY <1>1, <1>3, Zenon DEF Holds, Sections, LockInv
  <2>2. /\ records \in SUBSET Record
        /\ \A r \in records : \E q \in op.snap : Kept(q, r)
        /\ \A r \in op.snap : r.id \in Own(op) \/ \E q \in records : Kept(r, q)
    BY <1>2 DEF Kept
  <2>3. \A r, q \in records : r.id = q.id => r = q
    BY <1>2, <2>1 DEF IInv, OneRow
  <2> HIDE DEF records
  <2>4. returned' \in SUBSET [id : Nat, scope : Scope] /\ \A ref \in returned' : ref \in returned
    BY <1>1, <1>3 DEF TypeOK
  <2>5. /\ WorldStep(a) /\ TypeOfDisk' /\ index'[op.scope] = records
        /\ \A s \in Scope \ {op.scope} : index'[s] = index[s]
        /\ UNCHANGED <<files, faults>>
    BY <1>3, <2>1, <2>2, <2>3, <2>4, IndexStep, ZenonT(40)
  <2>6. \A s \in Scope : \A r \in index'[s] : \E q \in index[s] : q.id = r.id
    BY <2>1, <2>2, <2>5 DEF Kept
  <2>7. CalmBack(a) /\ UNCHANGED crashes
    <3>1. Fresh(op) = {} /\ Gone(op) = {op.id}
      BY <1>1, <1>2 DEF Fresh, Gone, Own
    <3>2. \A id : id # op.id /\ HasRow(id) => HasRow(id)'
      <4> SUFFICES ASSUME NEW id, id # op.id, NEW s \in Scope, NEW r \in index[s], r.id = id
                   PROVE  \E q \in index'[s] : q.id = id
        BY DEF HasRow
      <4>1. CASE s = op.scope
        <5>1. r \in records
          BY <2>1, <4>1 DEF records
        <5> QED BY <2>5, <4>1, <5>1
      <4>2. CASE s # op.scope
        BY <2>5, <4>2
      <4> QED BY <4>1, <4>2
    <3>3. ~HasRow(op.id)'
      <4> SUFFICES ASSUME NEW s \in Scope, NEW r \in index'[s], r.id = op.id PROVE FALSE
        BY DEF HasRow
      <4>1. s # op.scope
        BY <2>5 DEF records
      <4>2. r \in index[s]
        BY <2>5, <4>1
      <4> QED BY <1>2, <4>1, <4>2 DEF IInv, OwnInv
    <3>4. CalmInv /\ Calm' => op.id \notin files
      <4>1. UNCHANGED <<crashes, faults>>
        BY <1>3, <2>5 DEF WriteIndex, world
      <4> QED BY <3>1, <4>1 DEF CalmInv, Calm
    <3>5. UNCHANGED crashes
      BY <1>3 DEF WriteIndex, world
    <3> QED BY <2>5, <3>1, <3>2, <3>3, <3>4, <3>5, Zenon DEF CalmBack
  <2> QED BY <1>1, <1>2, <1>3, <2>5, <2>6, <2>7, RollbackInv, Zenon
<1>4. ASSUME IndexFails(a) PROVE InvStep
  <2>1. /\ WorldStep(a) /\ TypeOfDisk' /\ faults' > 0 /\ faults' = faults + 1
        /\ UNCHANGED <<files, index, now, nextId, crashes, returned>>
    BY <1>4, IndexFailsStep
  <2>2. faults \in Nat /\ faults' > 1
    BY <1>1, <1>2, <2>1 DEF TypeOK
  <2>3. CalmBack(a)
    BY <2>1, <2>2 DEF CalmBack, Calm
  <2> QED BY <1>1, <1>2, <2>1, <2>3, RollbackInv
<1> QED BY <1>3, <1>4 DEF remove_record_bytes

\* An expiry writes tombstones into the rows whose files it deletes then.
LEMMA TombstonesInv ==
  ASSUME IInv, NEW a \in Actor, WriteTombstones(a)
  PROVE  InvStep
<1> DEFINE op == ops[a]
           targets == {r \in op.snap : r.id \in op.matched[op.scope]}
           Tombstoned(r) == IF r.tombstone = {} THEN [r EXCEPT !.tombstone = {op.at}] ELSE r
           records == (op.snap \ targets) \cup {Tombstoned(r) : r \in targets}
           new == [op EXCEPT !.pc = "delete", !.held = FALSE, !.snap = {},
                             !.deletions = {r.id : r \in targets}]
<1>1. /\ op \in Op /\ op.pc = "tombstone" /\ TypeOK /\ LockInv(a) /\ OwnInv(a) /\ FileInv(a)
  BY DEF WriteTombstones, IInv, TypeOK
<1>2. op \in ExpiryOp /\ op.scope \in Scope /\ op.snap \in SUBSET Record /\ op.at \in Nat
  BY <1>1, Forms, Zenon DEF ExpiryPc, ExpiryOp, LockInv
<1>3. Own(op) = {} /\ Fresh(op) = {}
  BY <1>1 DEF Own, Fresh, WritePc
<1>4. ASSUME op.held, WriteIndex(a, records), Become(a, new), UNCHANGED returned
      PROVE  InvStep
  <2>1. Holds(op) /\ op.snap = index[op.scope]
    BY <1>1, <1>4 DEF Holds, Sections, LockInv
  <2>2. \A r \in op.snap : /\ Tombstoned(r) \in Record /\ Tombstoned(r).id = r.id
                           /\ Tombstoned(r).tombstone # {}
    BY <1>2, SMTT(30) DEF Record
  <2> HIDE DEF Tombstoned
  <2>3. /\ records \in SUBSET Record
        /\ \A r \in records : \E q \in op.snap : Kept(q, r)
        /\ \A r \in op.snap : \E q \in records : Kept(r, q)
    <3>1. \A r \in records : r \in op.snap \/ \E q \in targets : r = Tombstoned(q)
      OBVIOUS
    <3>2. \A r \in op.snap : r \in records \/ Tombstoned(r) \in records
      OBVIOUS
    <3> HIDE DEF records
    <3> QED BY <1>2, <2>2, <3>1, <3>2, Zenon DEF Kept
  <2>4. \A r \in records : \/ r \in op.snap /\ r.id \notin op.matched[op.scope]
                           \/ \E q \in op.snap : /\ q.id \in op.matched[op.scope] /\ r.id = q.id
                                                 /\ r = Tombstoned(q)
    BY <2>2
  <2>5. \A r, q \in records : r.id = q.id => r = q
    <3>1. \A r, q \in op.snap : r.id = q.id => r = q
      BY <1>2, <2>1 DEF IInv, OneRow
    <3> HIDE DEF records
    <3> QED BY <2>4, <3>1
  <2> HIDE DEF records
  <2>6. returned' \in SUBSET [id : Nat, scope : Scope] /\ \A ref \in returned' : ref \in returned
    BY <1>1, <1>4 DEF TypeOK
  <2>7. /\ WorldStep(a) /\ TypeOfDisk' /\ index'[op.scope] = records
        /\ \A s \in Scope \ {op.scope} : index'[s] = index[s]
        /\ UNCHANGED <<files, faults>>
    BY <1>4, <2>1, <2>3, <2>5, <2>6, IndexStep
  <2>8. {r.id : r \in targets} \in SUBSET Nat
    BY <1>2 DEF Record
  <2>9. /\ new \in ExpiryOp /\ new.pc = "delete" /\ ~new.held
        /\ new.deletions = {r.id : r \in targets}
    BY <1>2, <2>8, Zenon DEF ExpiryOp, ExpiryPc
  <2> HIDE DEF new
  <2>10. Own(new) = {} /\ Fresh(new) = {} /\ Spilled(new) = {} /\ ~Holds(new)
    BY <2>9 DEF Own, Fresh, Spilled, Holds, WritePc
  <2>11. \A id \in Doomed(new) : \E r \in targets : id = r.id
    BY <2>9 DEF Doomed
  <2>12. ops'[a] = new
    BY <1>1, <1>4 DEF Become, TypeOK
  <2>13. LockInv(a)' /\ OwnInv(a)'
    BY <2>9, <2>10, <2>12 DEF LockInv, OwnInv
  <2>14. \A id \in Doomed(new) : \A s \in Scope : \A r \in index'[s] :
           r.id = id => r.tombstone # {}
    <3> SUFFICES ASSUME NEW id \in Doomed(new), NEW s \in Scope, NEW r \in index'[s], r.id = id
                 PROVE  r.tombstone # {}
      OBVIOUS
    <3>1. PICK t \in targets : id = t.id
      BY <2>11
    <3>2. t \in index[op.scope] /\ t.id \in op.matched[op.scope]
      BY SMTT(30), <2>1
    <3>3. s = op.scope
      BY <1>2, <2>7, <3>1, <3>2 DEF IInv, OneRow
    <3> QED BY <2>2, <2>4, <2>7, <3>1, <3>2, <3>3, Zenon
  <2>15. FileInv(a)'
    BY <2>9, <2>10, <2>12, <2>14, Zenon DEF FileInv
  <2>16. \A id \in Doomed(new) : \E s \in Scope : \E r \in index[s] : r.id = id
    BY <1>2, <2>1, <2>11
  <2>17. Gone(new) = {} /\ crashes' >= crashes
    BY <1>1, <1>4, <2>9 DEF Gone, WriteIndex, world, TypeOK
  <2>18. CalmStep(a, new)
    BY <1>3, <2>7, <2>17, CalmOwnsNothing
  <2> QED BY <1>4, <2>7, <2>9, <2>10, <2>13, <2>15, <2>16, <2>17, <2>18, ActorStep, Zenon DEF Op
<1>5. ASSUME IndexFails(a), Become(a, Idle)
      PROVE  InvStep
  <2>1. /\ WorldStep(a) /\ TypeOfDisk' /\ UNCHANGED <<files, index, crashes, returned>>
    BY <1>5, IndexFailsStep
  <2>2. Idle \in Op /\ Idle.pc = "idle"
    BY DEF Op, Idle
  <2>3. /\ Own(Idle) = {} /\ Fresh(Idle) = {} /\ Doomed(Idle) = {} /\ Spilled(Idle) = {}
        /\ ~Holds(Idle)
    BY <2>2 DEF Own, Fresh, Doomed, Spilled, Holds, WritePc, Sections
  <2>4. ops'[a] = Idle
    BY <1>1, <1>5 DEF Become, TypeOK
  <2>5. (LockInv(a) /\ OwnInv(a) /\ FileInv(a))'
    BY <2>2, <2>3, <2>4, Zenon DEF LockInv, OwnInv, FileInv, WritePc, ExpiryPc
  <2>6. Gone(Idle) = {} /\ crashes' >= crashes
    BY <1>1, <2>1, <2>2 DEF Gone, TypeOK
  <2>7. CalmStep(a, Idle)
    BY <1>3, <2>1, <2>6, CalmOwnsNothing
  <2> QED BY <1>5, <2>1, <2>2, <2>3, <2>5, <2>6, <2>7, ActorStep, Zenon
<1> QED BY <1>4, <1>5 DEF WriteTombstones
-----------------------------------------------------------------------------
(* The whole system.                                                       *)

LEMMA InitInv == Init => FullInv
<1> SUFFICES ASSUME Init PROVE FullInv
  OBVIOUS
<1>1. Idle \in Op /\ Idle.pc = "idle"
  BY DEF Op, Idle
<1>2. \A a \in Actor : ops[a] = Idle
  BY DEF Init
<1>3. TypeOK
  BY <1>1 DEF Init, TypeOK
<1>4. /\ Own(Idle) = {} /\ Fresh(Idle) = {} /\ Doomed(Idle) = {} /\ Spilled(Idle) = {}
      /\ ~Holds(Idle)
  BY <1>1 DEF Own, Fresh, Doomed, Spilled, Holds, WritePc, Sections
<1>5. \A s \in Scope : index[s] = {}
  BY DEF Init
<1>6. \A a \in Actor : LockInv(a) /\ OwnInv(a) /\ FileInv(a)
  BY <1>1, <1>2, <1>4, Zenon DEF LockInv, OwnInv, FileInv, WritePc, ExpiryPc
<1>7. \A a, b \in Actor : Apart(a, b)
  BY <1>2, <1>4 DEF Apart
<1>8. Drawn /\ OneRow /\ ReferencedAreStored
  BY <1>2, <1>4, <1>5 DEF Init, Drawn, OneRow, ReferencedAreStored
<1>9. Gone(Idle) = {}
  BY <1>1 DEF Gone
<1>10. CalmInv
  BY <1>2, <1>5, <1>9 DEF Init, CalmInv
<1> QED BY <1>3, <1>6, <1>7, <1>8, <1>10 DEF FullInv, IInv

\* After a crash nobody owns anything; the store is as it was.
LEMMA CrashInv ==
  ASSUME IInv, Crash
  PROVE  InvStep
<1>1. /\ UNCHANGED <<files, index, now, nextId, faults, returned>> /\ TypeOK
      /\ crashes' = crashes + 1 /\ \A a \in Actor : ops'[a] = Idle
  BY DEF Crash, disk, IInv
<1>2. Idle \in Op /\ Idle.pc = "idle"
  BY DEF Op, Idle
<1>3. TypeOK'
  BY <1>1, <1>2 DEF Crash, TypeOK
<1>4. /\ Own(Idle) = {} /\ Fresh(Idle) = {} /\ Doomed(Idle) = {} /\ Spilled(Idle) = {}
      /\ ~Holds(Idle)
  BY <1>2 DEF Own, Fresh, Doomed, Spilled, Holds, WritePc, Sections
<1>5. \A a \in Actor : (LockInv(a) /\ OwnInv(a) /\ FileInv(a))'
  BY <1>1, <1>2, <1>4, Zenon DEF LockInv, OwnInv, FileInv, WritePc, ExpiryPc
<1>6. \A a, b \in Actor : Apart(a, b)'
  BY <1>1, <1>4 DEF Apart
<1>7. Drawn'
  BY <1>1, <1>4, Zenon DEF Drawn, IInv
<1>8. OneRow' /\ ReferencedAreStored'
  BY <1>1, ZenonT(40) DEF OneRow, ReferencedAreStored, IInv
<1>9. CalmInv'
  BY <1>1 DEF CalmInv, Calm, TypeOK
<1> QED BY <1>3, <1>5, <1>6, <1>7, <1>8, <1>9 DEF IInv, InvStep

\* Nothing that is stored depends on the clock.
LEMMA QuietStep ==
  ASSUME IInv, UNCHANGED <<files, index, locks, ops, nextId, faults, crashes, returned>>,
         now' \in Nat
  PROVE  InvStep
<1>1. TypeOK'
  BY DEF IInv, TypeOK
<1>2. Drawn' /\ OneRow' /\ ReferencedAreStored'
  BY DEF IInv, Drawn, OneRow, ReferencedAreStored
<1>3. \A a \in Actor : (LockInv(a) /\ OwnInv(a) /\ FileInv(a))'
  <2> SUFFICES ASSUME NEW a \in Actor PROVE (LockInv(a) /\ OwnInv(a) /\ FileInv(a))'
    OBVIOUS
  <2>1. LockInv(a) /\ OwnInv(a) /\ FileInv(a)
    BY DEF IInv
  <2>2. LockInv(a)'
    BY <2>1 DEF LockInv
  <2>3. OwnInv(a)'
    BY SMTT(30), <2>1 DEF OwnInv
  <2>4. FileInv(a)'
    BY <2>1 DEF FileInv, Stored
  <2> QED BY <2>2, <2>3, <2>4
<1>4. \A a, b \in Actor : a # b => Apart(a, b)'
  BY DEF IInv, Apart
<1>5. CalmInv => CalmInv'
  BY Zenon DEF CalmInv, Calm, HasRow
<1> QED BY <1>1, <1>2, <1>3, <1>4, <1>5 DEF IInv, InvStep

LEMMA ActorInv ==
  ASSUME IInv, NEW a \in Actor, Step(a)
  PROVE  InvStep
<1>1. CASE spill_large_tool_result_fields(a)
  <2>1. PICK s \in Scope, n \in 1..MaxFields :
          StartWrite(a, s, n, TRUE, [repository_id |-> {}, project_id |-> {}])
    BY <1>1, Zenon DEF spill_large_tool_result_fields
  <2>2. n \in Int /\ TRUE \in BOOLEAN /\ [repository_id |-> {}, project_id |-> {}] \in Meta
    BY DEF Meta
  <2> QED BY <2>1, <2>2, StartWriteInv, Zenon
<1>2. CASE write_bytes_with_metadata(a)
  <2>1. PICK s \in Scope, m \in Metadata : StartWrite(a, s, 1, FALSE, m)
    BY <1>2, Zenon DEF write_bytes_with_metadata
  <2>2. 1 \in Int /\ FALSE \in BOOLEAN /\ m \in Meta
    BY DEF Meta
  <2> QED BY <2>1, <2>2, StartWriteInv, Zenon
<1>3. CASE safe_expire_artifacts_by_retention(a)
  <2>1. PICK scopes \in {Scope} \cup {{s} : s \in Scope} : StartExpiry(a, "find", scopes, {})
    BY <1>3 DEF safe_expire_artifacts_by_retention
  <2>2. scopes \in SUBSET Scope /\ {} \in SUBSET Nat
    OBVIOUS
  <2> QED BY <2>1, <2>2, StartExpiryInv
<1>4. CASE safe_expire_artifact_records(a)
  <2>1. PICK r \in returned : StartExpiry(a, "match", {r.scope}, {r.id})
    BY <1>4 DEF safe_expire_artifact_records
  <2>2. {r.scope} \in SUBSET Scope /\ {r.id} \in SUBSET Nat
    BY DEF IInv, TypeOK
  <2> QED BY <2>1, <2>2, StartExpiryInv
<1>5. CASE ListScope(a) \/ Listed(a) \/ NextScope(a) \/ ExpiryEnds(a)
  BY <1>5, ListingInv
<1>6. CASE write_file_bytes(a)
  BY <1>6, WriteFileInv
<1>7. CASE acquire(a)
  BY <1>7, AcquireInv
<1>8. CASE IndexRecord(a)
  BY <1>8, IndexRecordInv
<1>9. CASE Unwrite(a)
  BY <1>9, UnwriteInv
<1>10. CASE update_record_bytes(a)
  BY <1>10, UpdateRecordInv
<1>11. CASE delete_artifact_bytes(a)
  BY <1>11, EraseInv
<1>12. CASE remove_record_bytes(a)
  BY <1>12, RemoveRecordInv
<1>13. CASE WriteTombstones(a)
  BY <1>13, TombstonesInv
<1>14. CASE delete_artifact(a)
  BY <1>14, DeleteInv
<1> QED BY <1>1, <1>2, <1>3, <1>4, <1>5, <1>6, <1>7, <1>8, <1>9, <1>10, <1>11, <1>12, <1>13,
           <1>14 DEF Step

LEMMA NextInv == FullInv /\ [Next]_vars => FullInv'
<1> SUFFICES ASSUME FullInv, [Next]_vars PROVE InvStep
  BY DEF FullInv, InvStep
<1> USE DEF FullInv
<1>1. CASE \E a \in Actor : Step(a)
  BY <1>1, ActorInv
<1>2. CASE Crash
  BY <1>2, CrashInv
<1>3. CASE Tick
  <2>1. /\ UNCHANGED <<files, index, locks, ops, nextId, faults, crashes, returned>>
        /\ now' \in Nat
    BY <1>3 DEF Tick, disk, IInv, TypeOK
  <2> QED BY <2>1, QuietStep
<1>4. CASE UNCHANGED vars
  <2>1. /\ UNCHANGED <<files, index, locks, ops, nextId, faults, crashes, returned>>
        /\ now' \in Nat
    BY <1>4 DEF vars, IInv, TypeOK
  <2> QED BY <2>1, QuietStep
<1> QED BY <1>1, <1>2, <1>3, <1>4 DEF Next

\* The inductive invariant: drawn ids belong to one operation until they are answered, who
\* holds the lock of an index has read what is in it, and while all is calm a file without
\* a row and a row without a file are an operation's own.
THEOREM Invariance == Spec => []FullInv
BY InitInv, NextInv, PTL DEF Spec

\* When nobody works, nobody owns a file or a row.
LEMMA QuietIsConsistent == FullInv => QuietStoreIsConsistent
<1> SUFFICES ASSUME FullInv, crashes = 0, faults <= 1,
                    \A a \in Actor : ops[a].pc \in {"idle", "failed"}
             PROVE  LET rows == UNION {index[s] : s \in Scope}
                    IN  /\ files \subseteq {r.id : r \in rows}
                        /\ \A r \in rows : r.id \in files \/ r.tombstone # {}
  BY DEF QuietStoreIsConsistent
<1>1. \A a \in Actor : Fresh(ops[a]) = {} /\ Gone(ops[a]) = {}
  BY DEF Fresh, Gone
<1>2. /\ \A id \in files : HasRow(id)
      /\ \A s \in Scope : \A r \in index[s] : r.id \in files \/ r.tombstone # {}
  BY <1>1, Zenon DEF FullInv, CalmInv, Calm
<1> QED BY <1>2 DEF HasRow

-----------------------------------------------------------------------------
(* Lookups.                                                                *)

\* The rows of an artifact, among some scopes: its one row, if its scope is among them.
LEMMA RowsOfOne ==
  ASSUME OneRow, NEW s \in Scope, NEW r \in index[s], NEW scopes \in SUBSET Scope
  PROVE  Rows(r.id, scopes) = IF s \in scopes THEN {[scope |-> s, row |-> r]} ELSE {}
<1>1. ASSUME NEW x \in Rows(r.id, scopes)
      PROVE  s \in scopes /\ x = [scope |-> s, row |-> r]
  <2>1. PICK t \in scopes, q \in UNION {index[u] : u \in scopes} : x = [scope |-> t, row |-> q]
    BY <1>1 DEF Rows
  <2>2. q \in index[t] /\ q.id = r.id
    BY <1>1, <2>1 DEF Rows
  <2> QED BY <2>1, <2>2 DEF OneRow
<1>2. s \in scopes => [scope |-> s, row |-> r] \in Rows(r.id, scopes)
  BY DEF Rows
<1> QED BY <1>1, <1>2

OwnerOf(r, s) == IF r.repository_id = {} THEN {s} ELSE r.repository_id

Lookup(id, repository, project) ==
  resolve_output_record_for_context(id, {repository}, {repository}, project)

\* What a lookup answers in a repository's context, by what the one row says.
LEMMA LookupOfOne ==
  ASSUME OneRow, NEW s \in Scope, NEW r \in index[s], NEW repository \in Scope,
         NEW project \in {{}} \cup {{p} : p \in Project}
  PROVE  /\ Lookup(r.id, repository, project) = "Found" <=>
              OwnerOf(r, s) = {repository} /\ s = repository /\ r.project_id \subseteq project
         /\ OwnerOf(r, s) # {repository} =>
              Lookup(r.id, repository, project) = "RepositoryScopeOrIdentityMismatch"
<1> DEFINE one == [scope |-> s, row |-> r]
           owner == OwnerOf(r, s)
           Matches(x) == record_matches_request_context(x.row, x.scope, {repository},
                                                        {x.scope}, project)
           matches == {x \in Rows(r.id, {repository}) : Matches(x)}
           elsewhere == \E x \in Rows(r.id, Scope) :
                          ~record_matches_repository_context(x.row, x.scope, {repository},
                                                             {repository})
           found == Lookup(r.id, repository, project)
<1>1. one.scope = s /\ one.row = r
  OBVIOUS
<1>2. /\ Rows(r.id, {repository}) = IF s = repository THEN {one} ELSE {}
      /\ Rows(r.id, Scope) = {one}
  <2>1. {repository} \in SUBSET Scope /\ Scope \in SUBSET Scope
    OBVIOUS
  <2>2. Rows(r.id, {repository}) = IF s \in {repository} THEN {one} ELSE {}
    BY <2>1, RowsOfOne
  <2>3. Rows(r.id, Scope) = IF s \in Scope THEN {one} ELSE {}
    BY <2>1, RowsOfOne, Zenon
  <2> QED BY <2>2, <2>3
<1>3. s = repository =>
        (Matches(one) <=> owner = {repository} /\ r.project_id \subseteq project)
  <2>1. Matches(one) <=> record_matches_request_context(r, s, {repository}, {s}, project)
    BY <1>1
  <2>2. {repository} # {} /\ {s} \subseteq {s}
    OBVIOUS
  <2>3. r.repository_id # {} => owner = r.repository_id
    BY DEF OwnerOf
  <2>4. r.repository_id = {} => owner = {s}
    BY DEF OwnerOf
  <2> HIDE DEF owner, Matches
  <2>5. record_matches_request_context(r, s, {repository}, {s}, project) <=>
          /\ r.repository_id # {} => r.repository_id = {repository}
          /\ IF project = {} THEN r.project_id = {} ELSE r.project_id \subseteq project
    BY <2>2 DEF record_matches_request_context
  <2>6. (IF project = {} THEN r.project_id = {} ELSE r.project_id \subseteq project)
          <=> r.project_id \subseteq project
    OBVIOUS
  <2> QED BY <2>1, <2>3, <2>4, <2>5, <2>6, Zenon
<1>4. owner # {repository} => elsewhere
  BY <1>1, <1>2 DEF OwnerOf, record_matches_repository_context
<1>5. matches = IF s = repository /\ owner = {repository} /\ r.project_id \subseteq project
                THEN {one} ELSE {}
  BY <1>2, <1>3
<1>6. \E x \in {one} : {one} = {x}
  OBVIOUS
<1>7. found = IF matches # {}
              THEN IF \E x \in matches : matches = {x} THEN "Found" ELSE "InvalidIndex"
              ELSE IF elsewhere THEN "RepositoryScopeOrIdentityMismatch"
              ELSE IF project = {} /\ \E x \in Rows(r.id, {repository}) : x.row.project_id # {}
                   THEN "ProjectOrJobContextRequired"
              ELSE "NotFound"
  BY Zenon DEF Lookup, resolve_output_record_for_context
<1> HIDE DEF matches, elsewhere, found, owner
<1>8. /\ found = "Found" <=> owner = {repository} /\ s = repository /\ r.project_id \subseteq project
      /\ owner # {repository} => found = "RepositoryScopeOrIdentityMismatch"
  BY <1>4, <1>5, <1>6, <1>7, Zenon
<1> QED BY <1>8 DEF owner, found

\* From a repository's context exactly its own artifacts are found, those of a project with
\* that project only, at any moment of the other actors' work: an id has one row in the
\* whole store (output_record_for_context, artifacts.rs).
LEMMA LookupsFollow == FullInv => LookupsAreScoped
<1> SUFFICES ASSUME FullInv, NEW s \in Scope, NEW repository \in Scope,
                    NEW project \in {{}} \cup {{p} : p \in Project}, NEW r \in index[s]
             PROVE  /\ Lookup(r.id, repository, project) = "Found" =>
                         /\ OwnerOf(r, s) = {repository} /\ s = repository
                         /\ r.project_id \subseteq project
                    /\ OwnerOf(r, s) = {repository} /\ s = repository
                       /\ r.project_id \subseteq project =>
                         Lookup(r.id, repository, project) = "Found"
                    /\ OwnerOf(r, s) # {repository} =>
                         Lookup(r.id, repository, project) = "RepositoryScopeOrIdentityMismatch"
  BY Zenon DEF LookupsAreScoped, Lookup, OwnerOf
<1>1. OneRow
  BY Zenon DEF FullInv, IInv
<1> QED BY <1>1, LookupOfOne, SMTT(30)

-----------------------------------------------------------------------------
\* What spills and writes answered is stored for good, and after at most one I/O error the
\* quiet store holds no file without a row and no row without file or tombstone, and every
\* artifact is found in its own context, for any number of actors, scopes, artifacts and
\* fields and any interleaving of their writes, roll-backs and expiries (artifacts.rs).
THEOREM StoreIsConsistentHolds == Spec => []StoreIsConsistent
<1>1. FullInv => StoreIsConsistent
  BY QuietIsConsistent, LookupsFollow DEF FullInv, IInv, StoreIsConsistent
<1> QED BY <1>1, Invariance, PTL

\* The same of lookups alone: exactly a repository's own artifacts are found from its context
\* (resolve_output_record_for_context).
THEOREM LookupsAreScopedHolds == Spec => []LookupsAreScoped
BY LookupsFollow, Invariance, PTL
=============================================================================
