--------------------------- MODULE AdmissionProofs ---------------------------
(***************************************************************************)
(* Theorems about the admission of requests (Admission).                   *)
(***************************************************************************)
EXTENDS Admission, TLAPS, FiniteSetTheorems

Kinds == {"create", "add", "destroy"}
RequestRecords ==
  [pc : {"new", "locking", "global", "insert", "commit", "release", "over"}, id : Nat,
   user : RequestUsers \cup {0}, kind : Kinds \cup {"none"}, lab : Nat,
   answer : {"none", "accepted", "refused", "failed"}, stored : BOOLEAN]
LabRecords ==
  [user : RequestUsers \cup {0},
   status : {"Preparing", "Running", "Failed", "Terminating", "Terminated"},
   rows : 0..MaxInstancesPerLab, pending : Kinds \cup {"none"}]

\* Types.
AdmissionWellFormed ==
  /\ request \in [Requests -> RequestRecords]
  /\ DOMAIN labs \subseteq 0..RequestCount /\ labs \in [DOMAIN labs -> LabRecords]
  /\ operations \subseteq Requests /\ exact \in BOOLEAN

\* The operation of a lab fits its status, and an instance that is being added
\* has its place.
LabOK(lab) ==
  /\ lab.status = "Preparing" => lab.rows = 0
  /\ lab.status = "Preparing" <=> lab.pending = "create"
  /\ lab.status = "Terminating" <=> lab.pending = "destroy"
  /\ lab.pending = "add" => lab.status = "Running" /\ lab.rows < MaxInstancesPerLab

\* A request knows its lab; what it has checked under the row lock still holds
\* when it commits.
RequestOK(r) ==
  LET q == request[r]
  IN  /\ q.pc # "new" => q.kind \in Kinds /\ q.id \in Requests
      /\ q.pc # "new" /\ q.kind # "create" => q.lab \in DOMAIN labs
      /\ q.kind = "create" => q.lab = r
      /\ q.pc = "new" \/ (q.kind = "create" /\ q.pc \in {"locking", "global", "insert", "commit"})
           => r \notin DOMAIN labs
      /\ q.kind = "destroy" => q.pc \notin {"global", "release"}
      /\ q.kind = "add" /\ InTransaction(r) => labs[q.lab].status = "Running"
      /\ q.kind # "create" /\ q.pc = "commit" => labs[q.lab].pending = "none"
      /\ q.kind = "add" /\ q.pc = "commit" => labs[q.lab].rows < MaxInstancesPerLab

\* The row lock and the admission lock each have one holder.
RowLocked ==
  \A r, i \in Requests : \A l \in DOMAIN labs : LocksLab(r, l) /\ LocksLab(i, l) => r = i
AdmissionLocked ==
  \A r, i \in Requests : LocksAdmission(r) /\ LocksAdmission(i) => r = i

AdmissionInv ==
  /\ AdmissionWellFormed
  /\ \A l \in DOMAIN labs : LabOK(labs[l])
  /\ \A r \in Requests : RequestOK(r)
  /\ RowLocked /\ AdmissionLocked

\* Whoever is about to commit has left room for the container it adds.
RoomLeft ==
  exact => /\ Containers <= MaxTemporaryContainers
           /\ \A r \in Requests :
                request[r].pc = "commit" /\ request[r].kind \in {"create", "add"}
                  => Containers + 1 <= MaxTemporaryContainers


\* One request takes a step that leaves the labs alone.
LEMMA RequestMoves ==
  ASSUME AdmissionInv, NEW r \in Requests, request' \in [Requests -> RequestRecords],
         \A i \in Others(r) : request'[i] = request[i],
         UNCHANGED <<labs, operations>>, exact' \in BOOLEAN, RequestOK(r)',
         request'[r].kind # "create" /\ request'[r].pc \in {"global", "insert", "commit"}
           => \A i \in Others(r) : ~LocksLab(i, request'[r].lab),
         request'[r].kind \in {"create", "add"} /\ request'[r].pc \in {"insert", "commit", "release"}
           => \A i \in Others(r) : ~LocksAdmission(i)
  PROVE  AdmissionInv'
<1>1. AdmissionWellFormed' BY DEF AdmissionInv, AdmissionWellFormed
<1>2. \A l \in DOMAIN labs' : LabOK(labs'[l]) BY DEF AdmissionInv
<1>3. \A i \in Requests : RequestOK(i)'
  <2>1. ASSUME NEW i \in Others(r) PROVE RequestOK(i)'
    <3>1. RequestOK(i) /\ request'[i] = request[i] /\ labs' = labs BY DEF AdmissionInv, Others
    <3> QED BY <3>1 DEF RequestOK, InTransaction
  <2> QED BY <2>1 DEF Others
<1>4. RowLocked'
  <2> SUFFICES ASSUME NEW i \in Requests, NEW j \in Requests, NEW l \in DOMAIN labs,
                      LocksLab(i, l)', LocksLab(j, l)', i # j
               PROVE  FALSE
    BY DEF RowLocked
  <2>1. ASSUME NEW k \in Others(r) PROVE LocksLab(k, l)' <=> LocksLab(k, l)
    BY DEF LocksLab, InTransaction
  <2>2. LocksLab(r, l)' => \A k \in Others(r) : ~LocksLab(k, l)
    BY DEF LocksLab, InTransaction
  <2> QED BY <2>1, <2>2 DEF AdmissionInv, RowLocked, Others
<1>5. AdmissionLocked'
  <2> SUFFICES ASSUME NEW i \in Requests, NEW j \in Requests,
                      LocksAdmission(i)', LocksAdmission(j)', i # j
               PROVE  FALSE
    BY DEF AdmissionLocked
  <2>1. ASSUME NEW k \in Others(r) PROVE LocksAdmission(k)' <=> LocksAdmission(k)
    BY DEF LocksAdmission
  <2>2. LocksAdmission(r)' => \A k \in Others(r) : ~LocksAdmission(k)
    BY DEF LocksAdmission
  <2> QED BY <2>1, <2>2 DEF AdmissionInv, AdmissionLocked, Others
<1> QED BY <1>1, <1>2, <1>3, <1>4, <1>5 DEF AdmissionInv

\* The types of one request.
LEMMA RequestTypes ==
  ASSUME AdmissionInv, NEW r \in Requests
  PROVE  /\ request \in [Requests -> RequestRecords] /\ request[r] \in RequestRecords
         /\ RequestOK(r) /\ exact \in BOOLEAN
BY DEF AdmissionInv, AdmissionWellFormed

\* A request is answered: it gives up its locks.
LEMMA AnswerStep ==
  ASSUME AdmissionInv, NEW r \in Requests, NEW a \in {"accepted", "refused", "failed"},
         Answer(r, a), request[r].pc # "new", UNCHANGED <<labs, operations, exact>>
  PROVE  AdmissionInv'
<1>1. /\ request \in [Requests -> RequestRecords] /\ request[r] \in RequestRecords
      /\ RequestOK(r) /\ exact \in BOOLEAN
  BY RequestTypes
<1> DEFINE s == (a = "refused" /\ Known(r))
           ended == [request[r] EXCEPT !.pc = "over"]
           told == [ended EXCEPT !.answer = a]
           q == [told EXCEPT !.stored = s]
<1>2. request' = [request EXCEPT ![r] = q] BY <1>1 DEF Answer
<1>3. s \in BOOLEAN OBVIOUS
<1> HIDE DEF s
<1>4. ended \in RequestRecords /\ ended.pc = "over" /\ ended.kind = request[r].kind
      /\ ended.lab = request[r].lab /\ ended.id = request[r].id
  BY <1>1 DEF RequestRecords
<1> HIDE DEF ended
<1>5. told \in RequestRecords /\ told.pc = "over" /\ told.kind = request[r].kind
      /\ told.lab = request[r].lab /\ told.id = request[r].id
  BY <1>4 DEF RequestRecords
<1> HIDE DEF told
<1>6. q \in RequestRecords /\ q.pc = "over" /\ q.kind = request[r].kind
      /\ q.lab = request[r].lab /\ q.id = request[r].id
  BY <1>3, <1>5 DEF RequestRecords
<1> HIDE DEF q
<1>7. request' \in [Requests -> RequestRecords] /\ request'[r] = q
      /\ \A i \in Others(r) : request'[i] = request[i]
  BY <1>1, <1>2, <1>6 DEF Others
<1>8. RequestOK(r)'
  BY <1>1, <1>6, <1>7 DEF RequestOK, InTransaction
<1>9. exact' \in BOOLEAN BY <1>1
<1> QED BY <1>6, <1>7, <1>8, <1>9, RequestMoves

\* A request goes on, after it has got the locks it then has.
LEMMA AdvanceStep ==
  ASSUME AdmissionInv, NEW r \in Requests, request[r].pc \in {"locking", "global", "insert"},
         NEW pc \in {"global", "insert", "commit"}, Advance(r, pc),
         UNCHANGED <<labs, operations>>, exact' \in BOOLEAN,
         request[r].kind = "destroy" => pc # "global",
         request[r].kind # "create" => \A i \in Others(r) : ~LocksLab(i, request[r].lab),
         request[r].kind \in {"create", "add"} /\ pc # "global"
           => \A i \in Others(r) : ~LocksAdmission(i),
         request[r].kind = "add" => labs[request[r].lab].status = "Running",
         request[r].kind # "create" /\ pc = "commit" => labs[request[r].lab].pending = "none",
         request[r].kind = "add" /\ pc = "commit" => labs[request[r].lab].rows < MaxInstancesPerLab
  PROVE  AdmissionInv'
<1>1. /\ request \in [Requests -> RequestRecords] /\ request[r] \in RequestRecords
      /\ RequestOK(r)
  BY RequestTypes
<1> DEFINE q == [request[r] EXCEPT !.pc = pc]
<1>2. request' = [request EXCEPT ![r] = q] BY <1>1 DEF Advance
<1>3. q \in RequestRecords /\ q.pc = pc /\ q.kind = request[r].kind
      /\ q.lab = request[r].lab /\ q.id = request[r].id
  BY <1>1 DEF RequestRecords
<1> HIDE DEF q
<1>4. request' \in [Requests -> RequestRecords] /\ request'[r] = q
      /\ \A i \in Others(r) : request'[i] = request[i]
  BY <1>1, <1>2, <1>3 DEF Others
<1>5. RequestOK(r)'
  BY <1>1, <1>3, <1>4 DEF RequestOK, InTransaction
<1> QED BY <1>3, <1>4, <1>5, RequestMoves


\* Who holds a lock keeps the others from it.
LEMMA HeldLocks ==
  ASSUME AdmissionInv, NEW r \in Requests
  PROVE  /\ request[r].kind # "create" /\ InTransaction(r)
              => \A i \in Others(r) : ~LocksLab(i, request[r].lab)
         /\ LocksAdmission(r) => \A i \in Others(r) : ~LocksAdmission(i)
<1>1. RequestOK(r) /\ RowLocked /\ AdmissionLocked BY DEF AdmissionInv
<1>2. ASSUME request[r].kind # "create", InTransaction(r)
      PROVE  \A i \in Others(r) : ~LocksLab(i, request[r].lab)
  <2>1. request[r].lab \in DOMAIN labs /\ LocksLab(r, request[r].lab)
    BY <1>1, <1>2 DEF RequestOK, InTransaction, LocksLab
  <2> QED BY <1>1, <2>1 DEF RowLocked, Others
<1> QED BY <1>1, <1>2 DEF AdmissionLocked, Others

LEMMA LockStep ==
  ASSUME AdmissionInv, NEW r \in Requests, Lock(r) \/ LockAdmission(r) \/ LockTimeout(r)
  PROVE  AdmissionInv'
<1>1. RequestOK(r) /\ exact \in BOOLEAN BY RequestTypes
<1>2. UNCHANGED <<labs, operations, exact>> /\ exact' \in BOOLEAN
  BY <1>1 DEF Lock, LockAdmission, LockTimeout
<1>3. CASE Lock(r)
  <2>1. request[r].pc = "locking" BY <1>3 DEF Lock
  <2>2. CASE request[r].kind = "create"
    <3>1. Advance(r, "global") BY <1>3, <2>2 DEF Lock
    <3> QED BY <1>2, <2>1, <2>2, <3>1, AdvanceStep
  <2>3. CASE request[r].kind = "add"
    <3>1. /\ \A i \in Others(r) : ~LocksLab(i, request[r].lab)
          /\ IF labs[request[r].lab].status # "Running" THEN Answer(r, "refused")
             ELSE Advance(r, "global")
      BY <1>3, <2>3 DEF Lock
    <3>2. CASE labs[request[r].lab].status # "Running" BY <1>2, <2>1, <3>1, <3>2, AnswerStep
    <3>3. CASE labs[request[r].lab].status = "Running"
      BY <1>2, <2>1, <2>3, <3>1, <3>3, AdvanceStep
    <3> QED BY <3>2, <3>3
  <2>4. CASE request[r].kind = "destroy"
    <3>1. Advance(r, "insert") /\ \A i \in Others(r) : ~LocksLab(i, request[r].lab)
      BY <1>3, <2>4 DEF Lock
    <3> QED BY <1>2, <2>1, <2>4, <3>1, AdvanceStep
  <2> QED BY <1>1, <2>1, <2>2, <2>3, <2>4 DEF RequestOK, Kinds
<1>4. CASE LockAdmission(r)
  <2>1. request[r].pc = "global" /\ Advance(r, "insert") /\ \A i \in Others(r) : ~LocksAdmission(i)
    BY <1>4 DEF LockAdmission
  <2>2. request[r].kind # "create" => \A i \in Others(r) : ~LocksLab(i, request[r].lab)
    BY <2>1, HeldLocks DEF InTransaction
  <2>3. request[r].kind = "add" => labs[request[r].lab].status = "Running"
    BY <1>1, <2>1 DEF RequestOK, InTransaction
  <2> QED BY <1>2, <2>1, <2>2, <2>3, AdvanceStep
<1>5. CASE LockTimeout(r)
  <2>1. request[r].pc = "global" /\ Answer(r, "failed") BY <1>5 DEF LockTimeout
  <2> QED BY <1>2, <2>1, AnswerStep
<1> QED BY <1>3, <1>4, <1>5

LEMMA InsertStep ==
  ASSUME AdmissionInv, NEW r \in Requests, Insert(r)
  PROVE  AdmissionInv'
<1>1. RequestOK(r) /\ exact \in BOOLEAN BY RequestTypes
<1>2. request[r].pc = "insert" /\ UNCHANGED <<labs, operations>> BY DEF Insert
<1>3. CASE Answer(r, "accepted") /\ UNCHANGED exact BY <1>2, <1>3, AnswerStep
<1>4. CASE Answer(r, "refused") /\ UNCHANGED exact BY <1>2, <1>4, AnswerStep
<1>5. CASE Admitted(r) /\ Advance(r, "commit") /\ exact' \in BOOLEAN
  <2>1. /\ request[r].kind # "create" => \A i \in Others(r) : ~LocksLab(i, request[r].lab)
        /\ request[r].kind \in {"create", "add"} => \A i \in Others(r) : ~LocksAdmission(i)
    BY <1>2, HeldLocks DEF InTransaction, LocksAdmission
  <2>2. request[r].kind = "add" => labs[request[r].lab].status = "Running"
    BY <1>1, <1>2 DEF RequestOK, InTransaction
  <2>3. request[r].kind \in Kinds BY <1>1, <1>2 DEF RequestOK
  <2>4. /\ request[r].kind # "create" => labs[request[r].lab].pending = "none"
        /\ request[r].kind = "add" => labs[request[r].lab].rows < MaxInstancesPerLab
    BY <1>5, <2>3 DEF Admitted, AdmitInstance, Kinds
  <2> QED BY <1>2, <1>5, <2>1, <2>2, <2>4, AdvanceStep
<1> QED BY <1>1, <1>3, <1>4, <1>5 DEF Insert

LEMMA LookUpStep ==
  ASSUME AdmissionInv, NEW r \in Requests, LookUp(r)
  PROVE  AdmissionInv'
<1>1. /\ request \in [Requests -> RequestRecords] /\ request[r] \in RequestRecords
      /\ RequestOK(r) /\ r \in Nat /\ \A i \in 1..(r - 1) : i \in Requests
  BY RequestTypes, AdmissionAssumption DEF Requests
<1>2. exact \in BOOLEAN BY RequestTypes
<1>3. /\ request[r].pc = "new" /\ labs' = labs /\ operations' = operations
  BY DEF LookUp
<1>4. exact' \in BOOLEAN BY <1>2 DEF LookUp
<1>5. r \notin DOMAIN labs BY <1>1, <1>3 DEF RequestOK
<1>6. PICK id \in Requests, u \in RequestUsers \cup {0}, k \in Kinds, l \in Nat :
        /\ k # "create" => l \in DOMAIN labs
        /\ BeginRequest(r, id, u, k, l)
  <2>1. DOMAIN labs \subseteq Nat
    BY AdmissionAssumption DEF AdmissionInv, AdmissionWellFormed
  <2>2. ASSUME NEW u \in RequestUsers, NEW k \in Kinds, NEW l \in DOMAIN labs,
               BeginRequest(r, r, u, k, l)
        PROVE  \E id \in Requests, v \in RequestUsers \cup {0}, j \in Kinds, m \in Nat :
                 (j # "create" => m \in DOMAIN labs) /\ BeginRequest(r, id, v, j, m)
    BY <2>1, <2>2
  <2>3. ASSUME NEW i \in 1..(r - 1), request[i].pc # "new",
               BeginRequest(r, request[i].id, request[i].user, request[i].kind, request[i].lab)
        PROVE  \E id \in Requests, v \in RequestUsers \cup {0}, j \in Kinds, m \in Nat :
                 (j # "create" => m \in DOMAIN labs) /\ BeginRequest(r, id, v, j, m)
    <3>1. RequestOK(i) /\ request[i] \in RequestRecords
      BY <1>1, <2>3 DEF AdmissionInv
    <3>2. /\ request[i].id \in Requests /\ request[i].user \in RequestUsers \cup {0}
          /\ request[i].kind \in Kinds /\ request[i].lab \in Nat
          /\ request[i].kind # "create" => request[i].lab \in DOMAIN labs
      BY <2>3, <3>1 DEF RequestOK, RequestRecords
    <3> QED BY <2>3, <3>2
  <2> QED BY <2>2, <2>3 DEF LookUp, Kinds
<1>7. PICK q \in RequestRecords :
        /\ q.pc \in {"over", "locking"} /\ q.kind = k /\ q.id = id
        /\ q.lab = (IF k = "create" THEN r ELSE l) /\ request' = [request EXCEPT ![r] = q]
  <2> DEFINE pc == IF id \in operations THEN "over" ELSE "locking"
             answer == IF id \in operations THEN "accepted" ELSE "none"
             lab == IF k = "create" THEN r ELSE l
             q == [pc |-> pc, id |-> id, user |-> u, kind |-> k, lab |-> lab, answer |-> answer,
                   stored |-> FALSE]
  <2>1. request' = [request EXCEPT ![r] = q] BY <1>6 DEF BeginRequest
  <2>2. pc \in {"over", "locking"} /\ answer \in {"none", "accepted"} /\ lab \in Nat BY <1>1
  <2>3. lab = IF k = "create" THEN r ELSE l OBVIOUS
  <2> HIDE DEF pc, answer, lab
  <2>4. q \in RequestRecords /\ q.pc = pc /\ q.kind = k /\ q.id = id /\ q.lab = lab
    BY <2>2 DEF RequestRecords, Requests
  <2> HIDE DEF q
  <2> QED BY <2>1, <2>2, <2>3, <2>4
<1>8. request' \in [Requests -> RequestRecords] /\ request'[r] = q
      /\ \A i \in Others(r) : request'[i] = request[i]
  BY <1>1, <1>7 DEF Others
<1>9. RequestOK(r)' BY <1>3, <1>5, <1>6, <1>7, <1>8 DEF RequestOK, InTransaction
<1> QED BY <1>3, <1>4, <1>7, <1>8, <1>9, RequestMoves


\* A request whose own lab does not change, while it has it locked, keeps what
\* it has checked.
LEMMA RequestKept ==
  ASSUME AdmissionInv, NEW i \in Requests, request'[i] = request[i],
         DOMAIN labs \subseteq DOMAIN labs', i \in DOMAIN labs' => i \in DOMAIN labs,
         \A l \in DOMAIN labs : LocksLab(i, l) => labs'[l] = labs[l]
  PROVE  RequestOK(i)'
<1>1. RequestOK(i) BY DEF AdmissionInv
<1>2. request[i].kind # "create" /\ InTransaction(i) =>
        request[i].lab \in DOMAIN labs /\ labs'[request[i].lab] = labs[request[i].lab]
  BY <1>1 DEF RequestOK, InTransaction, LocksLab
<1> QED BY <1>1, <1>2 DEF RequestOK, InTransaction

\* Locks are only given up.
LEMMA LocksKept ==
  ASSUME AdmissionInv, NEW r \in Requests, request'[r].kind = request[r].kind,
         request'[r].lab = request[r].lab, InTransaction(r)' => InTransaction(r),
         LocksAdmission(r)' => LocksAdmission(r),
         \A i \in Others(r) : request'[i] = request[i],
         \A i \in Requests : \A l \in DOMAIN labs' \ DOMAIN labs : ~LocksLab(i, l)
  PROVE  RowLocked' /\ AdmissionLocked'
<1>1. \A i \in Requests, l \in DOMAIN labs' : LocksLab(i, l)' => LocksLab(i, l)
  BY DEF LocksLab, InTransaction, Others
<1>2. \A i \in Requests : LocksAdmission(i)' => LocksAdmission(i)
  BY DEF LocksAdmission, Others
<1> QED BY <1>1, <1>2 DEF AdmissionInv, RowLocked, AdmissionLocked

LEMMA CommitStep ==
  ASSUME AdmissionInv, NEW r \in Requests, Commit(r)
  PROVE  AdmissionInv'
<1> DEFINE k == request[r].kind
           lab == request[r].lab
<1>1. /\ request \in [Requests -> RequestRecords] /\ request[r] \in RequestRecords
      /\ RequestOK(r) /\ r \in 0..RequestCount /\ r \in Nat
  BY RequestTypes, AdmissionAssumption DEF Requests
<1>2. /\ request[r].pc = "commit" /\ operations' = operations \cup {request[r].id}
      /\ k \in Kinds /\ request[r].id \in Requests
  BY <1>1 DEF Commit, RequestOK
<1>3. exact' \in BOOLEAN BY RequestTypes DEF Commit
<1>4. /\ labs \in [DOMAIN labs -> LabRecords] /\ DOMAIN labs \subseteq 0..RequestCount
      /\ operations' \subseteq Requests
  BY <1>2 DEF AdmissionInv, AdmissionWellFormed
<1>5. PICK q \in RequestRecords :
        /\ request' = [request EXCEPT ![r] = q] /\ q.kind = k /\ q.lab = lab /\ q.id = request[r].id
        /\ q.pc = IF k = "destroy" THEN "over" ELSE "release"
  <2> DEFINE over == [request[r] EXCEPT !.pc = "over", !.answer = "accepted"]
             rel == [request[r] EXCEPT !.pc = "release"]
  <2>1. over \in RequestRecords /\ over.pc = "over" /\ over.kind = k /\ over.lab = lab
        /\ over.id = request[r].id
    BY <1>1 DEF RequestRecords
  <2>2. rel \in RequestRecords /\ rel.pc = "release" /\ rel.kind = k /\ rel.lab = lab
        /\ rel.id = request[r].id
    BY <1>1 DEF RequestRecords
  <2>3. request' = IF k = "destroy" THEN [request EXCEPT ![r] = over]
                   ELSE [request EXCEPT ![r] = rel]
    BY <1>1 DEF Commit
  <2> HIDE DEF over, rel
  <2>4. CASE k = "destroy" BY <2>1, <2>3, <2>4
  <2>5. CASE k # "destroy" BY <2>2, <2>3, <2>5
  <2> QED BY <2>4, <2>5
<1>6. request' \in [Requests -> RequestRecords] /\ request'[r] = q
      /\ \A i \in Others(r) : request'[i] = request[i]
  BY <1>1, <1>5 DEF Others
<1>7. /\ k = "create" => labs' = [l \in DOMAIN labs \cup {r} |-> IF l = r THEN NewLab(request[r].user) ELSE labs[l]]
      /\ k = "add" => labs' = [labs EXCEPT ![lab].pending = "add"]
      /\ k = "destroy" => labs' = [labs EXCEPT ![lab].pending = "destroy", ![lab].status = "Terminating"]
  BY DEF Commit
<1>8. /\ k = "create" => lab = r /\ r \notin DOMAIN labs
      /\ k # "create" => lab \in DOMAIN labs /\ labs[lab].pending = "none" /\ LocksLab(r, lab)
      /\ k = "add" => labs[lab].status = "Running" /\ labs[lab].rows < MaxInstancesPerLab
  BY <1>1, <1>2 DEF RequestOK, InTransaction, LocksLab
<1>9. \A i \in Requests : \A l \in DOMAIN labs' \ DOMAIN labs : ~LocksLab(i, l)
  <2>1. \A i \in Requests : RequestOK(i) BY DEF AdmissionInv
  <2>2. \A i \in Requests, l \in {r} \ DOMAIN labs : ~LocksLab(i, l)
    BY <2>1 DEF RequestOK, LocksLab, InTransaction
  <2>3. DOMAIN labs' \subseteq DOMAIN labs \cup {r} BY <1>2, <1>4, <1>7, <1>8 DEF Kinds
  <2> QED BY <2>2, <2>3
<1>10. RowLocked' /\ AdmissionLocked'
  BY <1>2, <1>5, <1>6, <1>9, LocksKept DEF InTransaction, LocksAdmission
<1>11. ASSUME NEW n \in LabRecords, NEW m, k = "create" => m = r, k # "create" => m = lab,
              DOMAIN labs' = DOMAIN labs \cup {m}, labs'[m] = n,
              \A l \in DOMAIN labs \ {m} : labs'[l] = labs[l],
              labs' \in [DOMAIN labs' -> LabRecords], LabOK(n)
       PROVE  AdmissionInv'
  <2>1. ASSUME NEW i \in Others(r) PROVE RequestOK(i)'
    <3>1. i # r /\ i \in Requests /\ request'[i] = request[i] BY <1>6 DEF Others
    <3>2. i \in DOMAIN labs' => i \in DOMAIN labs BY <1>8, <1>11, <3>1
    <3>3. \A l \in DOMAIN labs : LocksLab(i, l) => l # m
      BY <1>8, <1>11, <3>1 DEF AdmissionInv, RowLocked
    <3> QED BY <1>11, <3>1, <3>2, <3>3, RequestKept
  <2>2. RequestOK(r)'
    BY <1>1, <1>2, <1>5, <1>6, <1>8, <1>11 DEF RequestOK, InTransaction, Kinds
  <2>3. ASSUME NEW l \in DOMAIN labs' PROVE LabOK(labs'[l])
    <3>1. CASE l = m BY <1>11, <3>1
    <3>2. CASE l # m
      <4>1. l \in DOMAIN labs /\ labs'[l] = labs[l] BY <1>11, <2>3, <3>2
      <4> QED BY <4>1 DEF AdmissionInv
    <3> QED BY <3>1, <3>2
  <2>4. DOMAIN labs' \subseteq 0..RequestCount BY <1>1, <1>4, <1>8, <1>11
  <2>5. AdmissionWellFormed' BY <1>3, <1>4, <1>6, <1>11, <2>4 DEF AdmissionWellFormed
  <2>6. \A i \in Requests : RequestOK(i)' BY <2>1, <2>2 DEF Others
  <2> QED BY <1>10, <2>3, <2>5, <2>6 DEF AdmissionInv
<1>12. CASE k = "create"
  <2> DEFINE n == NewLab(request[r].user)
  <2>1. n \in LabRecords /\ n.status = "Preparing" /\ n.pending = "create" /\ n.rows = 0
    BY <1>1, AdmissionAssumption DEF NewLab, LabRecords, RequestRecords, Kinds
  <2>2. labs' = [l \in DOMAIN labs \cup {r} |-> IF l = r THEN n ELSE labs[l]] BY <1>7, <1>12
  <2> HIDE DEF n
  <2>3. /\ DOMAIN labs' = DOMAIN labs \cup {r} /\ labs'[r] = n
        /\ \A l \in DOMAIN labs \ {r} : labs'[l] = labs[l]
        /\ labs' \in [DOMAIN labs' -> LabRecords]
    BY <1>4, <2>1, <2>2
  <2>4. LabOK(n) BY <2>1 DEF LabOK
  <2> QED BY <1>11, <1>12, <2>1, <2>3, <2>4
<1>13. CASE k = "add"
  <2> DEFINE n == [labs[lab] EXCEPT !.pending = "add"]
  <2>1. n \in LabRecords /\ n.status = "Running" /\ n.pending = "add" /\ n.rows < MaxInstancesPerLab
    BY <1>4, <1>8, <1>13 DEF LabRecords, Kinds
  <2>2. labs' = [labs EXCEPT ![lab] = n] BY <1>4, <1>7, <1>8, <1>13
  <2> HIDE DEF n
  <2>3. /\ DOMAIN labs' = DOMAIN labs \cup {lab} /\ labs'[lab] = n
        /\ \A l \in DOMAIN labs \ {lab} : labs'[l] = labs[l]
        /\ labs' \in [DOMAIN labs' -> LabRecords]
    BY <1>4, <1>8, <1>13, <2>1, <2>2
  <2>4. LabOK(n) BY <2>1 DEF LabOK
  <2> QED BY <1>11, <1>13, <2>1, <2>3, <2>4
<1>14. CASE k = "destroy"
  <2> DEFINE p == [labs[lab] EXCEPT !.pending = "destroy"]
             n == [p EXCEPT !.status = "Terminating"]
  <2>1. p \in LabRecords /\ p.pending = "destroy" BY <1>4, <1>8, <1>14 DEF LabRecords, Kinds
  <2>2. labs' = [labs EXCEPT ![lab] = n] BY <1>4, <1>7, <1>8, <1>14
  <2> HIDE DEF p
  <2>3. n \in LabRecords /\ n.status = "Terminating" /\ n.pending = "destroy"
    BY <2>1 DEF LabRecords
  <2> HIDE DEF n
  <2>4. /\ DOMAIN labs' = DOMAIN labs \cup {lab} /\ labs'[lab] = n
        /\ \A l \in DOMAIN labs \ {lab} : labs'[l] = labs[l]
        /\ labs' \in [DOMAIN labs' -> LabRecords]
    BY <1>4, <1>8, <1>14, <2>2, <2>3
  <2>5. LabOK(n) BY <2>3 DEF LabOK
  <2> QED BY <1>11, <1>14, <2>3, <2>4, <2>5
<1> QED BY <1>2, <1>12, <1>13, <1>14 DEF Kinds


\* The end of an operation leaves a lab whose containers are all stored, and
\* not more than were counted before.
LEMMA OperationEffect ==
  ASSUME AdmissionInv, NEW l \in DOMAIN labs, OperationEnds(l)
  PROVE  \E n \in LabRecords : /\ labs' = [labs EXCEPT ![l] = n] /\ LabOK(n)
                               /\ n.pending = "none" /\ n.rows <= Size(l)
<1> DEFINE done == [labs[l] EXCEPT !.pending = "none"]
<1>1. /\ labs[l] \in LabRecords /\ LabOK(labs[l]) /\ labs[l].pending # "none"
      /\ MaxInstancesPerLab \in Nat /\ MaxInstancesPerLab >= 1
  BY AdmissionAssumption DEF AdmissionInv, AdmissionWellFormed, OperationEnds
<1>2. done \in LabRecords /\ done.pending = "none" /\ done.status = labs[l].status
      /\ done.rows = labs[l].rows /\ labs[l].rows \in 0..MaxInstancesPerLab
  BY <1>1 DEF LabRecords, Kinds
<1>3. PICK success \in BOOLEAN :
        labs' = [labs EXCEPT ![l] =
             CASE done.status = "Preparing" ->
                    IF success THEN [done EXCEPT !.status = "Running", !.rows = 1]
                    ELSE [done EXCEPT !.status = "Failed"]
               [] done.status = "Running" ->
                    IF success THEN [done EXCEPT !.rows = @ + 1] ELSE done
               [] done.status = "Terminating" ->
                    IF success THEN [done EXCEPT !.status = "Terminated", !.rows = 0]
                    ELSE [done EXCEPT !.status = "Failed"]]
  BY DEF OperationEnds
<1> DEFINE failed == [done EXCEPT !.status = "Failed"]
<1> HIDE DEF done
<1>4. /\ failed \in LabRecords /\ failed.pending = "none" /\ failed.rows = labs[l].rows
      /\ failed.status = "Failed"
  BY <1>2 DEF LabRecords
<1>5. labs[l].rows <= Size(l) /\ Size(l) \in Nat BY <1>1, <1>2 DEF Size
<1>6. CASE labs[l].status = "Preparing"
  <2> DEFINE up == [done EXCEPT !.status = "Running"]
             n == [up EXCEPT !.rows = 1]
  <2>1. up \in LabRecords /\ up.pending = "none" /\ up.status = "Running" BY <1>2 DEF LabRecords
  <2>2. labs' = IF success THEN [labs EXCEPT ![l] = n] ELSE [labs EXCEPT ![l] = failed]
    BY <1>2, <1>3, <1>6
  <2> HIDE DEF up
  <2>3. n \in LabRecords /\ n.pending = "none" /\ n.rows = 1 /\ n.status = "Running"
    BY <1>1, <2>1 DEF LabRecords
  <2> HIDE DEF n, failed
  <2>4. 1 <= Size(l) BY <1>1, <1>2, <1>6 DEF Size, LabOK
  <2>5. LabOK(n) /\ LabOK(failed) BY <1>4, <2>3 DEF LabOK
  <2> QED BY <1>4, <1>5, <2>2, <2>3, <2>4, <2>5
<1>7. CASE labs[l].status = "Running"
  <2> DEFINE more == labs[l].rows + 1
             n == [done EXCEPT !.rows = more]
  <2>1. labs[l].pending = "add" /\ more \in 0..MaxInstancesPerLab
    BY <1>1, <1>2, <1>7 DEF LabOK, LabRecords, Kinds
  <2>2. more <= Size(l) BY <1>2, <2>1 DEF Size
  <2>3. labs' = IF success THEN [labs EXCEPT ![l] = n] ELSE [labs EXCEPT ![l] = done]
    BY <1>2, <1>3, <1>7
  <2> HIDE DEF more
  <2>4. n \in LabRecords /\ n.pending = "none" /\ n.rows = more /\ n.status = "Running"
    BY <1>2, <1>7, <2>1 DEF LabRecords
  <2> HIDE DEF n
  <2>5. LabOK(n) /\ LabOK(done) BY <1>2, <1>7, <2>4 DEF LabOK
  <2> QED BY <1>2, <1>5, <2>2, <2>3, <2>4, <2>5
<1>8. CASE labs[l].status = "Terminating"
  <2> DEFINE gone == [done EXCEPT !.status = "Terminated"]
             n == [gone EXCEPT !.rows = 0]
  <2>1. gone \in LabRecords /\ gone.pending = "none" /\ gone.status = "Terminated"
    BY <1>2 DEF LabRecords
  <2>2. labs' = IF success THEN [labs EXCEPT ![l] = n] ELSE [labs EXCEPT ![l] = failed]
    BY <1>2, <1>3, <1>8
  <2> HIDE DEF gone
  <2>3. n \in LabRecords /\ n.pending = "none" /\ n.rows = 0 /\ n.status = "Terminated"
    BY <1>1, <2>1 DEF LabRecords
  <2> HIDE DEF n, failed
  <2>4. LabOK(n) /\ LabOK(failed) BY <1>4, <2>3 DEF LabOK
  <2>5. n.rows <= Size(l) /\ failed.rows <= Size(l) BY <1>4, <1>5, <2>3
  <2>6. CASE success BY <2>2, <2>3, <2>4, <2>5, <2>6
  <2>7. CASE ~success BY <1>4, <2>2, <2>4, <2>5, <2>7
  <2> QED BY <2>6, <2>7
<1> QED BY <1>1, <1>6, <1>7, <1>8 DEF LabOK, LabRecords, Kinds

LEMMA OperationEndsStep ==
  ASSUME AdmissionInv, NEW l \in DOMAIN labs, OperationEnds(l)
  PROVE  AdmissionInv'
<1>1. PICK n \in LabRecords : labs' = [labs EXCEPT ![l] = n] /\ LabOK(n)
  BY OperationEffect
<1>2. request' = request /\ operations' = operations /\ \A r \in Requests : ~LocksLab(r, l)
  BY DEF OperationEnds
<1>3. exact' = exact BY DEF OperationEnds
<1>4. /\ DOMAIN labs' = DOMAIN labs /\ labs'[l] = n /\ \A m \in DOMAIN labs \ {l} : labs'[m] = labs[m]
      /\ labs' \in [DOMAIN labs' -> LabRecords]
  BY <1>1 DEF AdmissionInv, AdmissionWellFormed
<1>5. \A m \in DOMAIN labs' : LabOK(labs'[m]) BY <1>1, <1>4 DEF AdmissionInv
<1>6. \A i \in Requests : RequestOK(i)' BY <1>2, <1>4, RequestKept
<1>7. AdmissionWellFormed' BY <1>2, <1>3, <1>4 DEF AdmissionInv, AdmissionWellFormed
<1>8. RowLocked' /\ AdmissionLocked'
  BY <1>2, <1>4 DEF AdmissionInv, RowLocked, AdmissionLocked, LocksLab, LocksAdmission, InTransaction
<1> QED BY <1>5, <1>6, <1>7, <1>8 DEF AdmissionInv

LEMMA AdmissionInvInductive == AdmissionInv /\ [AdmissionNext]_admissionVars => AdmissionInv'
<1> SUFFICES ASSUME AdmissionInv, [AdmissionNext]_admissionVars PROVE AdmissionInv'
  OBVIOUS
<1>1. ASSUME NEW r \in Requests, Release(r) PROVE AdmissionInv'
  BY <1>1, AnswerStep DEF Release
<1>2. CASE UNCHANGED admissionVars
  BY <1>2 DEF admissionVars, AdmissionInv, AdmissionWellFormed, RequestOK, InTransaction,
              RowLocked, AdmissionLocked, LocksLab, LocksAdmission
<1> QED
  BY <1>1, <1>2, LookUpStep, LockStep, InsertStep, CommitStep, OperationEndsStep
  DEF AdmissionNext, RequestStep

LEMMA AdmissionInvariant == AdmissionSpec => []AdmissionInv
<1>1. AdmissionInit => AdmissionInv
  <2> SUFFICES ASSUME AdmissionInit PROVE AdmissionInv
    OBVIOUS
  <2> DEFINE first == [user |-> 1, status |-> "Running", rows |-> 1, pending |-> "none"]
  <2>1. /\ request = [r \in Requests |-> NewRequest] /\ labs = [l \in {0} |-> first]
        /\ operations = {} /\ exact = TRUE
    BY DEF AdmissionInit
  <2>2. NewRequest \in RequestRecords BY DEF NewRequest, RequestRecords
  <2>3. first \in LabRecords /\ LabOK(first)
    BY AdmissionAssumption DEF LabRecords, LabOK, Kinds
  <2> HIDE DEF first
  <2>4. AdmissionWellFormed
    <3>1. exact \in BOOLEAN BY <2>1
    <3>2. DOMAIN labs \subseteq 0..RequestCount BY <2>1, AdmissionAssumption
    <3> QED BY <2>1, <2>2, <2>3, <3>1, <3>2 DEF AdmissionWellFormed
  <2>5. \A l \in DOMAIN labs : LabOK(labs[l]) BY <2>1, <2>3
  <2>6. \A r \in Requests : RequestOK(r)
    BY <2>1 DEF RequestOK, NewRequest, InTransaction, Requests
  <2>7. RowLocked /\ AdmissionLocked
    BY <2>1 DEF RowLocked, AdmissionLocked, LocksLab, LocksAdmission, InTransaction, NewRequest
  <2> QED BY <2>4, <2>5, <2>6, <2>7 DEF AdmissionInv
<1> QED BY <1>1, AdmissionInvInductive, PTL DEF AdmissionSpec

\* Types; ADD_INSTANCE never brings a lab over MaxInstancesPerLab, because the
\* row lock keeps what was counted true until the commit.
THEOREM AdmissionWellTyped == AdmissionSpec => []AdmissionTypeOK
<1>1. AdmissionInv => AdmissionTypeOK
  BY DEF AdmissionInv, AdmissionWellFormed, RequestRecords, LabRecords, AdmissionTypeOK
<1> QED BY <1>1, AdmissionInvariant, PTL

\* SELECT ... FOR UPDATE of the lab makes the check for an operation under way
\* and the insert one step, for any number of requests at a time.
THEOREM OperationsCommitAlone == AdmissionSpec => []OneOperationUnderWay
<1>1. AdmissionInv => OneOperationUnderWay
  <2> SUFFICES ASSUME AdmissionInv, NEW r \in Requests,
                      request[r].pc = "commit", request[r].kind # "create"
               PROVE  /\ labs[request[r].lab].pending = "none"
                      /\ \A i \in Others(r) :
                           ~(request[i].pc = "commit" /\ request[i].lab = request[r].lab)
    BY DEF OneOperationUnderWay
  <2>1. RequestOK(r) /\ \A i \in Requests : RequestOK(i) BY DEF AdmissionInv
  <2>2. \A i \in Others(r) : ~LocksLab(i, request[r].lab)
    BY HeldLocks DEF InTransaction
  <2> QED BY <2>1, <2>2 DEF RequestOK, LocksLab, InTransaction, Others
<1> QED BY <1>1, AdmissionInvariant, PTL


\* Create and EnqueueAction look the operation id up again under their locks:
\* a repetition that is refused although its operation is stored is one of
\* ADD_INSTANCE.
THEOREM RepetitionsFindTheOperation == AdmissionSpec => []RepetitionsAccepted
<1>1. AdmissionInit => RepetitionsAccepted
  BY DEF AdmissionInit, RepetitionsAccepted, NewRequest
<1>2. AdmissionInv /\ RepetitionsAccepted /\ [AdmissionNext]_admissionVars => RepetitionsAccepted'
  <2> SUFFICES ASSUME AdmissionInv, RepetitionsAccepted, [AdmissionNext]_admissionVars
               PROVE  RepetitionsAccepted'
    OBVIOUS
  <2>1. ASSUME NEW r \in Requests, \A i \in Others(r) : request'[i] = request[i],
               \/ /\ request'[r].answer = request[r].answer /\ request'[r].kind = request[r].kind
                  /\ request'[r].stored = request[r].stored
               \/ ~(request'[r].answer = "refused" /\ request'[r].stored) \/ request'[r].kind = "add"
        PROVE  RepetitionsAccepted'
    BY <2>1 DEF RepetitionsAccepted, Others
  <2>2. ASSUME NEW r \in Requests, NEW pc, Advance(r, pc) PROVE RepetitionsAccepted'
    <3>1. request \in [Requests -> RequestRecords] /\ request[r] \in RequestRecords BY RequestTypes
    <3> QED BY <2>1, <2>2, <3>1 DEF Advance, Others, RequestRecords
  <2>3. ASSUME NEW r \in Requests, NEW a, Answer(r, a),
               a = "refused" /\ Known(r) => request[r].kind = "add"
        PROVE  RepetitionsAccepted'
    <3>1. request \in [Requests -> RequestRecords] /\ request[r] \in RequestRecords BY RequestTypes
    <3> DEFINE s == (a = "refused" /\ Known(r))
    <3>2. request' = [request EXCEPT ![r].pc = "over", ![r].answer = a, ![r].stored = s]
      BY <2>3 DEF Answer
    <3> HIDE DEF s
    <3>3. request'[r].stored = s /\ request'[r].kind = request[r].kind
          /\ \A i \in Others(r) : request'[i] = request[i]
      BY <3>1, <3>2 DEF Others, RequestRecords
    <3> QED BY <2>1, <2>3, <3>3 DEF s
  <2>4. ASSUME NEW r \in Requests, NEW id, NEW u, NEW k, NEW l, BeginRequest(r, id, u, k, l)
        PROVE  RepetitionsAccepted'
    <3>1. request \in [Requests -> RequestRecords] BY RequestTypes
    <3>2. ~request'[r].stored /\ \A i \in Others(r) : request'[i] = request[i]
      BY <2>4, <3>1 DEF BeginRequest, Others
    <3> QED BY <2>1, <3>2
  <2>5. ASSUME NEW r \in Requests, Commit(r) PROVE RepetitionsAccepted'
    <3>1. request \in [Requests -> RequestRecords] /\ request[r] \in RequestRecords BY RequestTypes
    <3>2. \/ Advance(r, "release")
          \/ request' = [request EXCEPT ![r].pc = "over", ![r].answer = "accepted"]
      BY <2>5 DEF Commit, Advance
    <3>3. CASE request' = [request EXCEPT ![r].pc = "over", ![r].answer = "accepted"]
      <4>1. request'[r].answer = "accepted" /\ \A i \in Others(r) : request'[i] = request[i]
        BY <3>1, <3>3 DEF Others, RequestRecords
      <4> QED BY <2>1, <4>1
    <3> QED BY <2>2, <3>2, <3>3
  <2>6. CASE request' = request BY <2>6 DEF RepetitionsAccepted
  <2>7. ASSUME NEW r \in Requests, LookUp(r) PROVE RepetitionsAccepted'
    BY <2>4, <2>7 DEF LookUp
  <2>8. ASSUME NEW r \in Requests, Lock(r) PROVE RepetitionsAccepted'
    BY <2>2, <2>3, <2>8 DEF Lock
  <2>9. ASSUME NEW r \in Requests, LockAdmission(r) \/ LockTimeout(r) \/ Release(r)
        PROVE  RepetitionsAccepted'
    BY <2>2, <2>3, <2>9 DEF LockAdmission, LockTimeout, Release
  <2>10. ASSUME NEW r \in Requests, Insert(r) PROVE RepetitionsAccepted'
    BY <2>2, <2>3, <2>10 DEF Insert, FoundAgain
  <2>11. ASSUME NEW l \in DOMAIN labs, OperationEnds(l) PROVE request' = request
    BY <2>11 DEF OperationEnds
  <2> QED BY <2>5, <2>6, <2>7, <2>8, <2>9, <2>10, <2>11 DEF AdmissionNext, RequestStep, admissionVars
<1> QED BY <1>1, <1>2, AdmissionInvariant, PTL DEF AdmissionSpec

\* The containers that are counted, each with its lab.
Counted == UNION {{l} \X (1..Size(l)) : l \in DOMAIN labs}

LEMMA CountedFinite ==
  ASSUME AdmissionInv
  PROVE  /\ IsFiniteSet(Counted) /\ Containers = Cardinality(Counted) /\ Containers \in Nat
         /\ \A l \in DOMAIN labs : Size(l) \in Nat
<1> DEFINE ids == 0..RequestCount
           places == 1..(MaxInstancesPerLab + 1)
<1>1. RequestCount \in Nat /\ MaxInstancesPerLab \in Nat BY AdmissionAssumption
<1>2. IsFiniteSet(ids) BY <1>1, FS_Interval
<1>3. IsFiniteSet(places) BY <1>1, FS_Interval
<1>4. ASSUME NEW l \in DOMAIN labs
      PROVE  l \in ids /\ Size(l) \in Nat /\ 1..Size(l) \subseteq places
  <2>1. labs[l].rows \in 0..MaxInstancesPerLab /\ l \in ids
    BY DEF AdmissionInv, AdmissionWellFormed, LabRecords
  <2>2. Size(l) \in Nat /\ Size(l) <= MaxInstancesPerLab + 1 BY <1>1, <2>1 DEF Size
  <2> QED BY <1>1, <2>1, <2>2
<1> HIDE DEF ids, places
<1>5. Counted \subseteq ids \X places BY <1>4 DEF Counted
<1>6. IsFiniteSet(ids \X places) BY <1>2, <1>3, FS_Product
<1>7. IsFiniteSet(Counted) BY <1>5, <1>6, FS_Subset
<1>8. Cardinality(Counted) \in Nat BY <1>7, FS_CardinalityType
<1> QED BY <1>4, <1>7, <1>8 DEF Containers, Counted

\* A commit adds one container; no other step adds any.
LEMMA CountedGrows ==
  ASSUME AdmissionInv, NEW x, Counted' \subseteq Counted \cup {x}
  PROVE  Containers' <= Containers + 1 /\ Containers' \in Nat
<1>1. /\ IsFiniteSet(Counted) /\ Containers = Cardinality(Counted) /\ Containers \in Nat
  BY CountedFinite
<1>2. Containers' = Cardinality(Counted') BY DEF Containers, Counted
<1> DEFINE all == Counted \cup {x}
<1>3. IsFiniteSet(all) /\ Cardinality(all) \in Nat /\ Cardinality(all) <= Cardinality(Counted) + 1
  <2>1. CASE x \in Counted
    <3>1. all = Counted BY <2>1
    <3> QED BY <1>1, <3>1
  <2>2. CASE x \notin Counted
    <3>1. IsFiniteSet(all) /\ Cardinality(all) = Cardinality(Counted) + 1 BY <1>1, <2>2, FS_AddElement
    <3> HIDE DEF all
    <3> QED BY <1>1, <3>1
  <2> QED BY <2>1, <2>2
<1> HIDE DEF all
<1>4. Counted' \subseteq all BY DEF all
<1>5. Cardinality(Counted') <= Cardinality(all) /\ Cardinality(Counted') \in Nat
  BY <1>3, <1>4, FS_Subset, FS_CardinalityType
<1> QED BY <1>1, <1>2, <1>3, <1>5

LEMMA CountedShrinks ==
  ASSUME AdmissionInv, Counted' \subseteq Counted
  PROVE  Containers' <= Containers /\ Containers' \in Nat
<1>1. /\ IsFiniteSet(Counted) /\ Containers = Cardinality(Counted) /\ Containers \in Nat
  BY CountedFinite
<1>2. Containers' = Cardinality(Counted') BY DEF Containers, Counted
<1>3. Cardinality(Counted') <= Cardinality(Counted) /\ Cardinality(Counted') \in Nat
  BY <1>1, FS_Subset, FS_CardinalityType
<1> QED BY <1>1, <1>2, <1>3


\* From the admission to the commit the room that was found stays: the only
\* step that adds a container is a commit, under the admission lock.
LEMMA RoomLeftInductive ==
  AdmissionInv /\ RoomLeft /\ [AdmissionNext]_admissionVars => RoomLeft'
<1> SUFFICES ASSUME AdmissionInv, RoomLeft, [AdmissionNext]_admissionVars PROVE RoomLeft'
  OBVIOUS
<1> DEFINE Adding(i) == request[i].pc = "commit" /\ request[i].kind \in {"create", "add"}
<1>1. /\ Containers \in Nat /\ MaxTemporaryContainers \in Nat /\ \A l \in DOMAIN labs : Size(l) \in Nat
  BY CountedFinite, AdmissionAssumption
<1>2. ASSUME Counted' \subseteq Counted, exact' => exact,
             \A i \in Requests : Adding(i)' => Adding(i)
      PROVE  RoomLeft'
  <2>1. Containers' <= Containers /\ Containers' \in Nat BY <1>2, CountedShrinks
  <2> SUFFICES ASSUME exact'
               PROVE  /\ Containers' <= MaxTemporaryContainers
                      /\ \A i \in Requests : Adding(i)' => Containers' + 1 <= MaxTemporaryContainers
    BY DEF RoomLeft
  <2>2. exact BY <1>2
  <2>3. Containers <= MaxTemporaryContainers BY <2>2 DEF RoomLeft
  <2>4. \A i \in Requests : Adding(i) => Containers + 1 <= MaxTemporaryContainers BY <2>2 DEF RoomLeft
  <2>5. Containers' <= MaxTemporaryContainers BY <1>1, <2>1, <2>3
  <2>6. ASSUME NEW i \in Requests, Adding(i)' PROVE Containers' + 1 <= MaxTemporaryContainers
    <3>1. Adding(i) BY <1>2, <2>6
    <3>2. Containers + 1 <= MaxTemporaryContainers BY <2>4, <3>1
    <3>3. \A a, b, c \in Nat : a <= b /\ b + 1 <= c => a + 1 <= c OBVIOUS
    <3> QED BY <1>1, <2>1, <3>2, <3>3
  <2> QED BY <2>5, <2>6
<1>3. ASSUME NEW r \in Requests, Advance(r, "commit"), labs' = labs,
             exact' /\ request[r].kind \in {"create", "add"}
               => exact /\ Containers + 1 <= MaxTemporaryContainers,
             exact' => exact
      PROVE  RoomLeft'
  <2>1. Containers' = Containers BY <1>3 DEF Containers, Size
  <2>2. \A i \in Others(r) : request'[i] = request[i]
    BY <1>3, RequestTypes DEF Advance, Others
  <2>3. request'[r].kind = request[r].kind
    BY <1>3, RequestTypes DEF Advance, RequestRecords
  <2> SUFFICES ASSUME exact'
               PROVE  /\ Containers <= MaxTemporaryContainers
                      /\ \A i \in Requests : Adding(i)' => Containers + 1 <= MaxTemporaryContainers
    BY <2>1 DEF RoomLeft
  <2>4. exact BY <1>3
  <2>5. ASSUME NEW i \in Requests, Adding(i)' PROVE Containers + 1 <= MaxTemporaryContainers
    <3>1. CASE i = r BY <1>3, <2>3, <2>5, <3>1
    <3>2. CASE i # r BY <2>2, <2>4, <2>5, <3>2 DEF RoomLeft, Others
    <3> QED BY <3>1, <3>2
  <2> QED BY <2>4, <2>5 DEF RoomLeft
<1>4. ASSUME NEW r \in Requests, Commit(r) PROVE RoomLeft'
  <2>1. /\ request \in [Requests -> RequestRecords] /\ request[r] \in RequestRecords /\ RequestOK(r)
    BY RequestTypes
  <2>2. request[r].pc = "commit" /\ request[r].kind \in Kinds /\ exact' = exact
    BY <1>4, <2>1 DEF Commit, RequestOK
  <2>3. request'[r].pc # "commit" /\ \A i \in Others(r) : request'[i] = request[i]
    BY <1>4, <2>1 DEF Commit, Others, RequestRecords
  <2>4. CASE request[r].kind = "destroy"
    <3>1. labs' = [labs EXCEPT ![request[r].lab].pending = "destroy",
                               ![request[r].lab].status = "Terminating"]
      BY <1>4, <2>4 DEF Commit
    <3>2. labs \in [DOMAIN labs -> LabRecords] BY DEF AdmissionInv, AdmissionWellFormed
    <3>3. DOMAIN labs' = DOMAIN labs /\ \A l \in DOMAIN labs : Size(l)' \in 0..Size(l)
      <4>1. DOMAIN labs' = DOMAIN labs BY <3>1
      <4>2. ASSUME NEW l \in DOMAIN labs
            PROVE  labs'[l].rows = labs[l].rows /\ labs'[l].pending \in {labs[l].pending, "destroy"}
        BY <3>1, <3>2 DEF LabRecords
      <4>3. \A l \in DOMAIN labs : labs[l].rows \in Nat
        BY <3>2, AdmissionAssumption DEF LabRecords
      <4> QED BY <4>1, <4>2, <4>3 DEF Size
    <3>4. Counted' \subseteq Counted BY <1>1, <3>3 DEF Counted
    <3> QED BY <1>2, <2>2, <2>3, <3>4 DEF Others
  <2>5. CASE request[r].kind \in {"create", "add"}
    <3>1. LocksAdmission(r) BY <2>2, <2>5 DEF LocksAdmission
    <3>2. \A i \in Others(r) : ~LocksAdmission(i) BY <3>1, HeldLocks
    <3>3. \A i \in Requests : ~Adding(i)' BY <2>3, <3>2 DEF LocksAdmission, Others
    <3>4. exact => Containers + 1 <= MaxTemporaryContainers BY <2>2, <2>5 DEF RoomLeft
    <3>5. PICK x : Counted' \subseteq Counted \cup {x}
      <4>1. CASE request[r].kind = "create"
        <5>1. labs' = [l \in DOMAIN labs \cup {r} |-> IF l = r THEN NewLab(request[r].user) ELSE labs[l]]
          BY <1>4, <4>1 DEF Commit
        <5>2. r \notin DOMAIN labs BY <2>1, <2>2, <4>1 DEF RequestOK
        <5>3. /\ DOMAIN labs' = DOMAIN labs \cup {r} /\ \A l \in DOMAIN labs : Size(l)' = Size(l)
              /\ Size(r)' = 1
          BY <5>1, <5>2 DEF Size, NewLab
        <5>4. Counted' \subseteq Counted \cup {<<r, 1>>} BY <5>3 DEF Counted
        <5> QED BY <5>4
      <4>2. CASE request[r].kind = "add"
        <5> DEFINE lab == request[r].lab
        <5>1. labs' = [labs EXCEPT ![lab].pending = "add"]
              /\ lab \in DOMAIN labs /\ labs[lab].pending = "none"
          BY <1>4, <2>1, <2>2, <4>2 DEF Commit, RequestOK
        <5>2. labs \in [DOMAIN labs -> LabRecords] BY DEF AdmissionInv, AdmissionWellFormed
        <5>3. PICK m \in DOMAIN labs : m = lab BY <5>1
        <5>4. /\ DOMAIN labs' = DOMAIN labs
              /\ \A l \in DOMAIN labs \ {m} : labs'[l] = labs[l]
              /\ labs'[m].rows = labs[m].rows /\ labs'[m].pending = "add" /\ labs[m].pending = "none"
              /\ labs[m].rows \in Nat
          BY <5>1, <5>2, <5>3, AdmissionAssumption DEF LabRecords
        <5>5. /\ \A l \in DOMAIN labs \ {m} : Size(l)' = Size(l)
              /\ Size(m)' = Size(m) + 1
          BY <5>4 DEF Size
        <5>6. 1..(Size(m) + 1) = (1..Size(m)) \cup {Size(m) + 1} BY <1>1
        <5>7. Counted' \subseteq Counted \cup {<<m, Size(m) + 1>>}
          BY <5>4, <5>5, <5>6 DEF Counted
        <5> QED BY <5>7
      <4> QED BY <2>5, <4>1, <4>2
    <3>6. Containers' <= Containers + 1 /\ Containers' \in Nat BY <3>5, CountedGrows
    <3>7. exact' => Containers' <= MaxTemporaryContainers
      <4>1. \A a, b, c \in Nat : a <= b + 1 /\ b + 1 <= c => a <= c OBVIOUS
      <4> QED BY <1>1, <2>2, <3>4, <3>6, <4>1
    <3> QED BY <3>3, <3>7 DEF RoomLeft
  <2> QED BY <2>2, <2>4, <2>5 DEF Kinds
<1>5. ASSUME NEW l \in DOMAIN labs, OperationEnds(l) PROVE RoomLeft'
  <2>1. PICK n \in LabRecords :
          labs' = [labs EXCEPT ![l] = n] /\ n.pending = "none" /\ n.rows <= Size(l)
    BY <1>5, OperationEffect
  <2>2. DOMAIN labs' = DOMAIN labs /\ labs'[l] = n /\ \A m \in DOMAIN labs \ {l} : labs'[m] = labs[m]
    BY <2>1
  <2>3. n.rows \in Nat BY AdmissionAssumption DEF LabRecords
  <2>4. Size(l)' = n.rows /\ \A m \in DOMAIN labs \ {l} : Size(m)' = Size(m)
    BY <2>1, <2>2, <2>3 DEF Size
  <2>5. \A m \in DOMAIN labs : Size(m)' \in 0..Size(m) BY <1>1, <2>1, <2>3, <2>4
  <2>6. Counted' \subseteq Counted BY <1>1, <2>2, <2>5 DEF Counted
  <2>7. exact' = exact /\ request' = request BY <1>5 DEF OperationEnds
  <2> QED BY <1>2, <2>6, <2>7
<1>6. ASSUME NEW r \in Requests, Insert(r) PROVE RoomLeft'
  <2>1. labs' = labs /\ Counted' = Counted BY <1>6 DEF Insert, Counted, Size
  <2>2. /\ request \in [Requests -> RequestRecords] /\ request[r] \in RequestRecords /\ RequestOK(r)
    BY RequestTypes
  <2>3. ASSUME NEW a, Answer(r, a), exact' = exact PROVE RoomLeft'
    <3>1. request'[r].pc = "over" /\ \A i \in Others(r) : request'[i] = request[i]
      BY <2>2, <2>3 DEF Answer, Others, RequestRecords
    <3> QED BY <1>2, <2>1, <2>3, <3>1 DEF Others
  <2>4. ASSUME Admitted(r), Advance(r, "commit"),
               exact' = (exact /\ (request[r].kind # "destroy" =>
                          (IF request[r].kind = "create" THEN Usage ELSE Rows) = Containers))
        PROVE  RoomLeft'
    <3>1. exact' => exact BY <2>4
    <3>2. ASSUME exact', request[r].kind \in {"create", "add"}
          PROVE  Containers + 1 <= MaxTemporaryContainers
      <4>1. CASE request[r].kind = "create"
        <5>1. Usage = Containers BY <2>4, <3>2, <4>1
        <5>2. Usage + 1 <= MaxTemporaryContainers BY <2>4, <4>1 DEF Admitted, AdmitCreate
        <5> QED BY <5>1, <5>2
      <4>2. CASE request[r].kind = "add"
        <5>1. (IF request[r].kind = "create" THEN Usage ELSE Rows) = Containers BY <2>4, <3>2, <4>2
        <5>2. Rows + 1 <= MaxTemporaryContainers BY <2>4, <4>2 DEF Admitted, AdmitInstance
        <5> QED BY <4>2, <5>1, <5>2
      <4> QED BY <3>2, <4>1, <4>2
    <3> QED BY <1>3, <2>1, <2>4, <3>1, <3>2
  <2> QED BY <1>6, <2>3, <2>4 DEF Insert
<1>7. ASSUME labs' = labs, exact' = exact, \A i \in Requests : Adding(i)' => Adding(i)
      PROVE  RoomLeft'
  <2>1. Counted' = Counted BY <1>7 DEF Counted, Size
  <2> QED BY <1>2, <1>7, <2>1
<1>8. ASSUME NEW r \in Requests,
             LookUp(r) \/ Lock(r) \/ LockAdmission(r) \/ LockTimeout(r) \/ Release(r)
      PROVE  RoomLeft'
  <2>1. labs' = labs /\ exact' = exact
    BY <1>8 DEF LookUp, Lock, LockAdmission, LockTimeout, Release
  <2>2. /\ request \in [Requests -> RequestRecords] /\ request[r] \in RequestRecords
    BY RequestTypes
  <2>3. ASSUME NEW a, Answer(r, a) PROVE \A i \in Requests : Adding(i)' => Adding(i)
    BY <2>2, <2>3 DEF Answer, RequestRecords
  <2>4. ASSUME NEW pc, Advance(r, pc), pc # "commit" PROVE \A i \in Requests : Adding(i)' => Adding(i)
    BY <2>2, <2>4 DEF Advance, RequestRecords
  <2>5. ASSUME NEW id, NEW u, NEW k, NEW l, BeginRequest(r, id, u, k, l)
        PROVE  \A i \in Requests : Adding(i)' => Adding(i)
    BY <2>2, <2>5 DEF BeginRequest
  <2> HIDE DEF Adding
  <2>6. CASE LookUp(r) BY <1>7, <2>1, <2>5, <2>6 DEF LookUp
  <2>7. CASE Lock(r) BY <1>7, <2>1, <2>3, <2>4, <2>7 DEF Lock
  <2>8. CASE LockAdmission(r) \/ LockTimeout(r) \/ Release(r)
    BY <1>7, <2>1, <2>3, <2>4, <2>8 DEF LockAdmission, LockTimeout, Release
  <2> QED BY <1>8, <2>6, <2>7, <2>8
<1>9. CASE UNCHANGED admissionVars
  <2>1. labs' = labs /\ exact' = exact /\ request' = request BY <1>9 DEF admissionVars
  <2> QED BY <1>7, <2>1
<1> QED BY <1>4, <1>5, <1>6, <1>8, <1>9 DEF AdmissionNext, RequestStep

\* GET_LOCK, held from the counting to the commit, keeps the containers within
\* MaxTemporaryContainers for any quota and any number of requests at a time,
\* as long as every admission has counted them all.
THEOREM QuotaHolds == AdmissionSpec => []CountedContainersWithinQuota
<1>1. AdmissionInit => RoomLeft
  <2> SUFFICES ASSUME AdmissionInit PROVE RoomLeft
    OBVIOUS
  <2>1. DOMAIN labs = {0} /\ Size(0) = 1 BY DEF AdmissionInit, Size
  <2>2. Counted = {<<0, 1>>} BY <2>1 DEF Counted
  <2> DEFINE x == <<0, 1>>
  <2>3. Counted = {x} BY <2>2
  <2> HIDE DEF x
  <2>4. Cardinality({x}) = 1 BY FS_Singleton
  <2>5. Containers = 1 BY <2>3, <2>4 DEF Containers, Counted
  <2>6. \A r \in Requests : request[r].pc = "new" BY DEF AdmissionInit, NewRequest
  <2>7. 1 <= MaxTemporaryContainers BY AdmissionAssumption
  <2> QED BY <2>5, <2>6, <2>7 DEF RoomLeft
<1>2. RoomLeft => CountedContainersWithinQuota BY DEF RoomLeft, CountedContainersWithinQuota
<1> QED BY <1>1, <1>2, RoomLeftInductive, AdmissionInvariant, PTL DEF AdmissionSpec
=============================================================================
