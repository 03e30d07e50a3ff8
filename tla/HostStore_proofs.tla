-------------------------- MODULE HostStore_proofs --------------------------
(***************************************************************************)
(* Theorems about HostStore, for any calls, hosts, configurations and      *)
(* number of failures.                                                     *)
(*                                                                         *)
(* The argument: the call that holds the mutex, and only that call, is     *)
(* between reading the file and the end of writing it, so that what it has *)
(* read is the whole table, and it is the one writer there can be.  A host *)
(* without the secret it should have is then the debt of a call in flight. *)
(***************************************************************************)
EXTENDS HostStore, TLAPS

\* What a call in flight knows: its host, and from loading on what it is going
\* to write.
CallInv ==
  \A c \in Call :
    /\ ~At(c, "idle") => call[c].host \in Host
    /\ At(c, "get") => call[c].config \in [value : {None}, path : Path]
    /\ call[c].pc \in {"load", "truncate", "write"} =>
         call[c].op \in {"delete", "rollback"} \/ call[c].config \in Config

\* The call with the mutex is reading, changing and writing the file.
LockInv ==
  \A c \in Call :
    /\ call[c].pc \in {"truncate", "write"} => lock = c
    /\ lock = c => call[c].pc \in {"truncate", "write"}
    /\ At(c, "truncate") => file = call[c].hosts
    /\ At(c, "write") => file = Torn

Inv == TypeOK /\ CallInv /\ LockInv

LEMMA EmptyType == Empty \in Table
BY DEF Empty, Table

LEMMA IdleType == Idle \in CallType
BY EmptyType DEF Idle, CallType

LEMMA InvInit == Init => Inv
<1> SUFFICES ASSUME Init PROVE Inv
  OBVIOUS
<1>1. call \in [Call -> CallType]
  BY IdleType DEF Init
<1>2. file \in Table /\ lock \in Call \cup {None} /\ faults \in 0 .. MaxFaults
  BY EmptyType, ConstantsAssumption DEF Init
<1>3. TypeOK
  BY <1>1, <1>2 DEF Init, TypeOK
<1>4. CallInv /\ LockInv
  BY ConstantsAssumption DEF Init, Idle, CallInv, LockInv, At
<1> QED
  BY <1>3, <1>4 DEF Inv

\* A step that only changes the record of call c, and neither the file nor
\* the mutex, between two places where c does not have the mutex.
LEMMA OwnStep ==
  ASSUME Inv, NEW c \in Call, NEW r \in CallType,
         call' = [call EXCEPT ![c] = r], UNCHANGED <<file, lock>>,
         call[c].pc \notin {"truncate", "write"}, r.pc \notin {"truncate", "write"},
         r.pc # "idle" => r.host \in Host,
         r.pc = "get" => r.config \in [value : {None}, path : Path],
         r.pc = "load" => r.op \in {"delete", "rollback"} \/ r.config \in Config
  PROVE  call' \in [Call -> CallType] /\ CallInv' /\ LockInv'
<1>1. call \in [Call -> CallType]
  BY DEF Inv, TypeOK
<1>2. call' \in [Call -> CallType]
  BY <1>1
<1>3. \A d \in Call : call'[d] = IF d = c THEN r ELSE call[d]
  BY <1>1
<1>4. CallInv'
  BY <1>3 DEF Inv, CallInv, At
<1>5. LockInv'
  BY <1>3 DEF Inv, LockInv, At
<1> QED
  BY <1>2, <1>4, <1>5

\* The calls begin with a host, and a new configuration when they write one.
LEMMA BeginInv ==
  ASSUME Inv, NEW c \in Call, Begin(c)
  PROVE  Inv'
<1> DEFINE New(op, pc, h, config, secret) ==
      [op |-> op, pc |-> pc, host |-> h, config |-> config, secret |-> secret, hosts |-> Empty]
<1> USE DEF Inv, TypeOK
<1>1. ASSUME NEW h \in Host, CreateHost(c, h)
      PROVE  Inv'
  <2>1. PICK v \in Value, secret \in BOOLEAN :
          Begins(c, "create", "load", h, [value |-> v, path |-> NoPath], secret)
    BY <1>1 DEF CreateHost
  <2>2. New("create", "load", h, [value |-> v, path |-> NoPath], secret) \in CallType
    BY EmptyType, ConstantsAssumption DEF CallType
  <2>3. [value |-> v, path |-> NoPath] \in Config
    BY ConstantsAssumption DEF Config
  <2>4. call' \in [Call -> CallType] /\ CallInv' /\ LockInv'
    BY <2>1, <2>2, <2>3, OwnStep DEF Begins, At
  <2>5. used' \subseteq Host /\ wants' \subseteq Host
    BY <1>1 DEF CreateHost
  <2> QED
    BY <2>1, <2>4, <2>5 DEF Begins
<1>2. ASSUME NEW h \in Host, UpdateHost(c, h)
      PROVE  Inv'
  <2>1. PICK v \in Value, secret \in BOOLEAN :
          Begins(c, "update", "load", h, [value |-> v, path |-> NoPath], secret)
    BY <1>2 DEF UpdateHost
  <2>2. New("update", "load", h, [value |-> v, path |-> NoPath], secret) \in CallType
    BY EmptyType, ConstantsAssumption DEF CallType
  <2>3. [value |-> v, path |-> NoPath] \in Config
    BY ConstantsAssumption DEF Config
  <2>4. call' \in [Call -> CallType] /\ CallInv' /\ LockInv'
    BY <2>1, <2>2, <2>3, OwnStep DEF Begins, At
  <2> QED
    BY <1>2, <2>1, <2>4 DEF Begins, UpdateHost
<1>3. ASSUME NEW h \in Host, DeleteHost(c, h)
      PROVE  Inv'
  <2>1. New("delete", "unset", h, None, FALSE) \in CallType
    BY EmptyType DEF CallType
  <2>2. call' \in [Call -> CallType] /\ CallInv' /\ LockInv'
    BY <1>3, <2>1, OwnStep DEF DeleteHost, Begins, At
  <2> QED
    BY <1>3, <2>2 DEF Begins, DeleteHost
<1>4. ASSUME NEW h \in Host, SetHostLastPath(c, h)
      PROVE  Inv'
  <2>1. PICK p \in Path : Begins(c, "path", "get", h, [value |-> None, path |-> p], FALSE)
    BY <1>4 DEF SetHostLastPath
  <2>2. New("path", "get", h, [value |-> None, path |-> p], FALSE) \in CallType
    BY EmptyType DEF CallType
  <2>3. call' \in [Call -> CallType] /\ CallInv' /\ LockInv'
    BY <2>1, <2>2, OwnStep DEF Begins, At
  <2> QED
    BY <1>4, <2>1, <2>3 DEF Begins, SetHostLastPath
<1> QED
  BY <1>1, <1>2, <1>3, <1>4 DEF Begin

\* The steps of a call.
LEMMA StepInv ==
  ASSUME Inv, NEW c \in Call, Step(c)
  PROVE  Inv'
<1> USE DEF Inv, TypeOK
<1>0. /\ call[c] \in CallType /\ call[c].host \in Host \cup {None}
      /\ ~At(c, "idle") => call[c].host \in Host
  BY DEF CallType, CallInv
<1>1. CASE GetByID(c)
  <2> DEFINE found == file[call[c].host]
  <2>1. CASE found = None
    <3>1. call' = [call EXCEPT ![c] = Idle]
      BY <1>1, <2>1 DEF GetByID, Returns
    <3>2. call' \in [Call -> CallType] /\ CallInv' /\ LockInv'
      BY <1>1, <3>1, IdleType, OwnStep DEF GetByID, At, Idle
    <3> QED
      BY <1>1, <3>2 DEF GetByID, history
  <2>2. CASE found # None
    <3> DEFINE r == [call[c] EXCEPT !.pc = "load", !.config = WithPath(c, found)]
    <3>1. found \in Config
      BY <1>0, <1>1, <2>2 DEF GetByID, At, Table
    <3>2. WithPath(c, found) \in Config
      BY <1>0, <1>1, <3>1 DEF GetByID, WithPath, Config, CallInv, At
    <3>3. r \in CallType /\ r.pc = "load" /\ r.host = call[c].host /\ r.config = WithPath(c, found)
      BY <1>0, <3>2 DEF CallType, Config
    <3>4. call' = [call EXCEPT ![c] = r]
      BY <1>1, <2>2 DEF GetByID
    <3>5. call' \in [Call -> CallType] /\ CallInv' /\ LockInv'
      BY <1>0, <1>1, <3>2, <3>3, <3>4, OwnStep DEF GetByID, At
    <3> QED
      BY <1>1, <3>5 DEF GetByID, history
  <2> QED
    BY <2>1, <2>2
<1>2. CASE Load(c)
  <2>1. CASE UNCHANGED lock
    <3>1. CASE call' = [call EXCEPT ![c] = Idle]
      <4>1. call' \in [Call -> CallType] /\ CallInv' /\ LockInv'
        BY <1>2, <2>1, <3>1, IdleType, OwnStep DEF Load, At, Idle
      <4> QED
        BY <1>2, <2>1, <4>1 DEF Load, history
    <3>2. CASE lock' = c
      BY <1>2, <2>1, <3>2, ConstantsAssumption DEF Load, Free
    <3> QED
      BY <1>2, <3>1, <3>2 DEF Load, Returns
  <2>2. CASE lock' = c
    <3> DEFINE r == [call[c] EXCEPT !.pc = "truncate", !.hosts = file]
    <3>1. CASE call' = [call EXCEPT ![c] = r]
      <4>1. file \in Table /\ r \in CallType
        BY <1>0, <1>2 DEF Load, CallType
      <4>2. \A d \in Call : call'[d] = IF d = c THEN r ELSE call[d]
        BY <3>1
      <4>3. r.pc = "truncate" /\ r.hosts = file /\ r.host = call[c].host
              /\ r.op = call[c].op /\ r.config = call[c].config
        BY <1>0 DEF CallType
      <4>4. CallInv'
        BY <1>0, <1>2, <4>2, <4>3 DEF CallInv, At, Load
      <4>5. \A d \in Call : call[d].pc \notin {"truncate", "write"}
        BY <1>2, ConstantsAssumption DEF Load, Free, LockInv
      <4>6. LockInv'
        BY <1>2, <2>2, <4>2, <4>3, <4>5 DEF LockInv, At, Load
      <4> QED
        BY <1>2, <2>2, <3>1, <4>1, <4>4, <4>6 DEF Load, history
    <3>2. CASE UNCHANGED lock
      BY <1>2, <2>2, <3>2, ConstantsAssumption DEF Load, Free
    <3> QED
      BY <1>2, <3>1, <3>2 DEF Load
  <2> QED
    BY <1>2, <2>1, <2>2 DEF Load
<1>3. CASE LoadFails(c)
  <2>1. call' \in [Call -> CallType] /\ CallInv' /\ LockInv'
    BY <1>3, IdleType, OwnStep DEF LoadFails, AfterFailedLoad, At, Idle
  <2>2. broken' \subseteq Host /\ misread' \in BOOLEAN
    BY <1>0, <1>3 DEF LoadFails, At
  <2> QED
    BY <1>3, <2>1, <2>2 DEF LoadFails
<1>4. CASE Truncate(c)
  <2>1. \A d \in Call : call'[d] = IF d = c THEN [call[c] EXCEPT !.pc = "write"] ELSE call[d]
    BY <1>4 DEF Truncate, GoesTo
  <2>2. call' \in [Call -> CallType]
    BY <1>0, <1>4 DEF Truncate, GoesTo, CallType
  <2>3. lock = c
    BY <1>4 DEF Truncate, LockInv, At
  <2>4. CallInv'
    BY <1>0, <1>4, <2>1 DEF Truncate, CallInv, At, CallType
  <2>5. LockInv'
    BY <1>0, <1>4, <2>1, <2>3 DEF Truncate, LockInv, At, CallType
  <2> QED
    BY <1>4, <2>2, <2>4, <2>5 DEF Truncate, history
<1>5. CASE Write(c)
  <2>1. Changed(c) \in Table
    BY <1>0, <1>5 DEF Write, Changed, CallInv, CallType, Table, At
  <2>2. lock = c
    BY <1>5 DEF Write, LockInv, At
  <2> DEFINE r == IF call[c].op \in {"create", "update"} /\ call[c].secret
                    THEN [call[c] EXCEPT !.pc = "unset", !.config = None, !.hosts = Empty] ELSE Idle
  <2>3. call' = [call EXCEPT ![c] = r]
    BY <1>5 DEF Write, Returns
  <2>4. r \in CallType /\ r.pc \in {"unset", "idle"} /\ (r.pc = "unset" => r.host = call[c].host)
    BY <1>0, IdleType, EmptyType DEF CallType, Idle
  <2>5. \A d \in Call : call'[d] = IF d = c THEN r ELSE call[d]
    BY <2>3
  <2> HIDE DEF r
  <2>6. CallInv'
    BY <1>0, <1>5, <2>4, <2>5 DEF CallInv, At, Write
  <2>7. LockInv'
    BY <1>5, <2>2, <2>4, <2>5, ConstantsAssumption DEF LockInv, At, Write
  <2> QED
    BY <1>5, <2>1, <2>3, <2>4, <2>6, <2>7 DEF Write, history
<1>6. CASE WriteFails(c)
  <2>1. \A d \in Call : call'[d] = IF d = c THEN Idle ELSE call[d]
    BY <1>6 DEF WriteFails, Returns
  <2>2. call' \in [Call -> CallType]
    BY <1>6, IdleType DEF WriteFails, Returns
  <2>3. lock = c
    BY <1>6 DEF WriteFails, LockInv, At
  <2>4. CallInv'
    BY <1>6, <2>1 DEF CallInv, At, Idle
  <2>5. LockInv'
    BY <1>6, <2>1, <2>3, ConstantsAssumption DEF LockInv, At, Idle, WriteFails
  <2>6. faults' \in 0 .. MaxFaults
    BY <1>6, ConstantsAssumption DEF WriteFails, Fault
  <2>7. broken' \subseteq Host
    BY <1>0, <1>6 DEF WriteFails, At
  <2> QED
    BY <1>6, <2>2, <2>4, <2>5, <2>6, <2>7 DEF WriteFails
<1>7. CASE Unset(c)
  <2> DEFINE r == [call[c] EXCEPT !.pc = IF call[c].op = "delete" THEN "load" ELSE "set"]
  <2>1. r \in CallType /\ r.op = call[c].op /\ r.host = call[c].host
          /\ r.pc \in {"load", "set"} /\ (r.pc = "load" => r.op = "delete")
    BY <1>0 DEF CallType
  <2>2. call' = [call EXCEPT ![c] = r]
    BY <1>7 DEF Unset, GoesTo
  <2>3. call' \in [Call -> CallType] /\ CallInv' /\ LockInv'
    BY <1>0, <1>7, <2>1, <2>2, OwnStep DEF Unset, At
  <2> QED
    BY <1>7, <2>3 DEF Unset, history
<1>8. CASE Set(c)
  <2>1. call' \in [Call -> CallType] /\ CallInv' /\ LockInv'
    BY <1>8, IdleType, OwnStep DEF Set, Returns, At, Idle
  <2>2. keychain' \subseteq Host /\ wants' \subseteq Host
    BY <1>0, <1>8 DEF Set, At
  <2> QED
    BY <1>8, <2>1, <2>2 DEF Set
<1>9. CASE SetFails(c)
  <2>1. /\ AfterFailedSet(c) \in CallType /\ AfterFailedSet(c).pc \in {"load", "idle"}
        /\ AfterFailedSet(c).pc = "load" =>
             AfterFailedSet(c).host = call[c].host /\ AfterFailedSet(c).op = "rollback"
    BY <1>0, IdleType DEF AfterFailedSet, CallType, Idle
  <2>2. call' \in [Call -> CallType] /\ CallInv' /\ LockInv'
    BY <1>0, <1>9, <2>1, OwnStep DEF SetFails, At
  <2>3. faults' \in 0 .. MaxFaults
    BY <1>9, ConstantsAssumption DEF SetFails, Fault
  <2>4. broken' \subseteq Host
    BY <1>0, <1>9 DEF SetFails, At
  <2> QED
    BY <1>9, <2>2, <2>3, <2>4 DEF SetFails
<1> QED
  BY <1>1, <1>2, <1>3, <1>4, <1>5, <1>6, <1>7, <1>8, <1>9 DEF Step

LEMMA InvNext == Inv /\ [Next]_vars => Inv'
<1> SUFFICES ASSUME Inv, [Next]_vars
             PROVE  Inv'
  OBVIOUS
<1>1. ASSUME NEW c \in Call, Begin(c) \/ Step(c)
      PROVE  Inv'
  BY <1>1, BeginInv, StepInv
<1>2. CASE Crash
  <2>1. \A c \in Call : call'[c] = Idle
    BY <1>2 DEF Crash
  <2>2. call' \in [Call -> CallType]
    BY <1>2, IdleType DEF Crash
  <2>3. CallInv' /\ LockInv'
    BY <1>2, <2>1, ConstantsAssumption DEF CallInv, LockInv, At, Idle, Crash
  <2>4. faults' \in 0 .. MaxFaults
    BY <1>2, ConstantsAssumption DEF Crash, Fault, Inv, TypeOK
  <2>5. broken' \subseteq Host
    BY <1>2 DEF Crash, Inv, TypeOK, CallInv
  <2> QED
    BY <1>2, <2>2, <2>3, <2>4, <2>5 DEF Crash, Inv, TypeOK
<1>3. CASE UNCHANGED vars
  BY <1>3 DEF vars, history, Inv, TypeOK, CallInv, LockInv, At
<1> QED
  BY <1>1, <1>2, <1>3 DEF Next

LEMMA Invariance == Spec => []Inv
BY InvInit, InvNext, PTL DEF Spec

\* The file, the mutex, the keychain and the local state of every call keep
\* their types: what a call is about to write is a whole configuration.
THEOREM StoreTypes == Spec => []TypeOK
<1>1. Inv => TypeOK
  BY DEF Inv
<1> QED
  BY <1>1, Invariance, PTL

-----------------------------------------------------------------------------
\* A file that is torn when nobody has the mutex was torn by a failure.
ReadInv == ~misread /\ (file = Torn /\ lock = None => faults > 0)

LEMMA ReadInvStep ==
  ASSUME Inv, Inv', ReadInv, [Next]_vars
  PROVE  ReadInv'
<1> USE DEF ReadInv
<1>0. faults \in Nat
  BY ConstantsAssumption DEF Inv, TypeOK
<1>1. ASSUME NEW c \in Call, Begin(c)
      PROVE  ReadInv'
  BY <1>1 DEF Begin, CreateHost, UpdateHost, DeleteHost, SetHostLastPath, Begins
<1>2. ASSUME NEW c \in Call, Step(c)
      PROVE  ReadInv'
  <2>1. CASE GetByID(c) \/ Unset(c)
    BY <2>1 DEF GetByID, Unset, history
  <2>2. CASE Set(c)
    BY <2>2 DEF Set
  <2>3. CASE Load(c)
    BY <2>3, ConstantsAssumption DEF Load, Free, history
  <2>4. CASE LoadFails(c)
    <3>1. faults # 0
      BY <2>4, <1>0 DEF LoadFails, Free
    <3>2. ~misread'
      BY <2>4, <3>1 DEF LoadFails
    <3> QED
      BY <2>4, <3>2 DEF LoadFails
  <2>5. CASE Truncate(c)
    <3>1. lock = c
      BY <2>5 DEF Truncate, At, Inv, LockInv
    <3> QED
      BY <2>5, <3>1, ConstantsAssumption DEF Truncate, history
  <2>6. CASE Write(c)
    <3>1. file' # Torn
      <4>1. Changed(c) \in Table
        BY <2>6 DEF Write, Changed, Inv, TypeOK, CallInv, CallType, Table, At
      <4> QED
        BY <2>6, <4>1, ConstantsAssumption DEF Write
    <3> QED
      BY <2>6, <3>1 DEF Write, history
  <2>7. CASE WriteFails(c) \/ SetFails(c)
    <3>1. faults' > 0 /\ UNCHANGED misread
      BY <2>7, <1>0 DEF WriteFails, SetFails, Fault
    <3> QED
      BY <3>1
  <2> QED
    BY <1>2, <2>1, <2>2, <2>3, <2>4, <2>5, <2>6, <2>7 DEF Step
<1>3. CASE Crash
  BY <1>3, <1>0 DEF Crash, Fault
<1>4. CASE UNCHANGED vars
  BY <1>4 DEF vars, history
<1> QED
  BY <1>1, <1>2, <1>3, <1>4 DEF Next

\* No call reads a half-written file as long as no write has failed and the
\* application has not ended in the middle of one.
THEOREM WholeReads == Spec => []ReadsWhole
<1>1. Init => ReadInv
  BY EmptyType, ConstantsAssumption DEF Init, ReadInv
<1>2. Inv /\ Inv' /\ ReadInv /\ [Next]_vars => ReadInv'
  BY ReadInvStep
<1>3. ReadInv => ReadsWhole
  BY DEF ReadInv, ReadsWhole
<1> QED
  BY <1>1, <1>2, <1>3, Invariance, PTL DEF Spec

-----------------------------------------------------------------------------
(***************************************************************************)
(* The refinement.                                                         *)
(***************************************************************************)

\* There is one writer at most, and its copy is the table.
LEMMA WriterIsUnique ==
  ASSUME Inv, NEW c \in Call, At(c, "write")
  PROVE  Current = call[c].hosts
<1>1. \A d \in Call : At(d, "write") => d = c
  BY DEF Inv, LockInv, At
<1> QED
  BY <1>1 DEF Current

\* A step that leaves every writer, and the file, as they are.
LEMMA SameTable ==
  ASSUME UNCHANGED file,
         \A c \in Call : (At(c, "write"))' <=> At(c, "write"),
         \A c \in Call : At(c, "write") => call'[c].hosts = call[c].hosts,
         Inv, Inv'
  PROVE  Current' = Current
<1>1. CASE \E c \in Call : At(c, "write")
  <2>1. PICK c \in Call : At(c, "write")
    BY <1>1
  <2>2. Current = call[c].hosts
    BY <2>1, WriterIsUnique
  <2>3. \A d \in Call : (At(d, "write"))' => d = c
    BY <2>1 DEF Inv, LockInv, At
  <2>4. Current' = call'[c].hosts
    BY <2>1, <2>3 DEF Current
  <2> QED
    BY <2>1, <2>2, <2>4
<1>2. CASE \A c \in Call : ~At(c, "write")
  BY <1>2 DEF Current
<1> QED
  BY <1>1, <1>2

LEMMA TableInit == Init => Table_!Init
BY DEF Init, Idle, At, Current, Table_!Init, Table_!Empty, Empty

\* The end of a write shows what was written.
LEMMA WriteCurrent ==
  ASSUME Inv, NEW c \in Call, Write(c)
  PROVE  Current' = Changed(c)
<1>1. call[c] \in CallType
  BY DEF Inv, TypeOK
<1>2. \A d \in Call : ~(At(d, "write"))'
  <2>1. lock = c
    BY DEF Inv, LockInv, Write, At
  <2>2. call'[c].pc # "write"
    BY <1>1 DEF Write, Returns, Idle, Inv, TypeOK, CallType
  <2>3. ASSUME NEW d \in Call, d # c
        PROVE  call'[d] = call[d]
    BY <2>3 DEF Write, Returns, Inv, TypeOK
  <2> QED
    BY <2>1, <2>2, <2>3 DEF At, Inv, LockInv
<1> QED
  BY <1>2 DEF Current, Write

\* The end of a write is the change of one host.
LEMMA WriteIsPut ==
  ASSUME Inv, NEW c \in Call, Write(c)
  PROVE  Table_!Next
<1> DEFINE x == IF call[c].op \in {"delete", "rollback"} THEN None ELSE call[c].config
<1>1. /\ call[c] \in CallType /\ call[c].host \in Host /\ call[c].hosts \in Table
      /\ call[c].op \in {"delete", "rollback"} \/ call[c].config \in Config
  BY DEF Inv, TypeOK, CallInv, Write, At, CallType
<1>2. Current = call[c].hosts
  BY WriterIsUnique DEF Write
<1>4. Current' = Changed(c)
  BY WriteCurrent
<1>5. Changed(c) = [Current EXCEPT ![call[c].host] = x]
  BY <1>2 DEF Changed
<1>6. Current # Torn /\ x \in Config \cup {None}
  BY <1>1, <1>2, ConstantsAssumption
<1>7. Table_!Put(call[c].host, x)
  BY <1>4, <1>5, <1>6 DEF Table_!Put
<1> QED
  BY <1>1, <1>6, <1>7 DEF Table_!Next

\* A failed write, or a crash in the middle of one, leaves a torn file.
LEMMA FailureTears ==
  ASSUME Inv, Inv', NEW c \in Call, WriteFails(c) \/ (Crash /\ At(c, "write"))
  PROVE  Current' = Torn
<1>1. lock' = None /\ At(c, "write") /\ UNCHANGED file
  BY DEF WriteFails, Crash
<1>2. \A d \in Call : ~(At(d, "write"))'
  BY <1>1, ConstantsAssumption DEF Inv, LockInv, At
<1>3. file = Torn
  BY <1>1 DEF Inv, LockInv, At
<1> QED
  BY <1>1, <1>2, <1>3 DEF Current

\* In the table that is a loss.
LEMMA FailureLoses ==
  ASSUME Inv, Inv', NEW c \in Call, WriteFails(c) \/ (Crash /\ At(c, "write"))
  PROVE  Table_!Next
BY FailureTears DEF Table_!Next, Table_!Lose

\* The step that only moves call c to record r, from a place and to a place
\* where it does not write.
LEMMA QuietStep ==
  ASSUME Inv, Inv', NEW c \in Call, NEW r, call' = [call EXCEPT ![c] = r], UNCHANGED file,
         ~At(c, "write"), r.pc # "write"
  PROVE  UNCHANGED Current
<1>1. \A d \in Call : call'[d] = IF d = c THEN r ELSE call[d]
  BY DEF Inv, TypeOK
<1> QED
  BY <1>1, SameTable DEF At

\* Truncation makes the writer's copy the table.
LEMMA TruncateKeeps ==
  ASSUME Inv, Inv', NEW c \in Call, Truncate(c)
  PROVE  UNCHANGED Current
<1>1. call'[c].pc = "write" /\ call'[c].hosts = call[c].hosts
  BY DEF Truncate, GoesTo, Inv, TypeOK, CallType
<1>2. \A d \in Call : (At(d, "write"))' => d = c
  BY <1>1 DEF Inv, LockInv, At
<1>3. Current' = call[c].hosts
  BY <1>1, <1>2 DEF Current, At
<1>4. lock = c /\ file = call[c].hosts
  BY DEF Truncate, Inv, LockInv, At
<1>5. \A d \in Call : ~At(d, "write")
  BY <1>4 DEF Truncate, Inv, LockInv, At
<1> QED
  BY <1>3, <1>4, <1>5 DEF Current

\* The other steps change nothing of the table.
LEMMA OthersKeep ==
  ASSUME Inv, Inv', NEW c \in Call,
         Begin(c) \/ (Step(c) /\ ~Truncate(c) /\ ~Write(c) /\ ~WriteFails(c))
  PROVE  UNCHANGED Current
<1>0. call[c] \in CallType
  BY DEF Inv, TypeOK
<1>i. Idle.pc # "write"
  BY DEF Idle
<1>1. CASE Begin(c)
  <2>1. PICK h \in Host :
          CreateHost(c, h) \/ UpdateHost(c, h) \/ DeleteHost(c, h) \/ SetHostLastPath(c, h)
    BY <1>1 DEF Begin
  <2>2. \A op, pc, config, secret :
          Begins(c, op, pc, h, config, secret) /\ pc # "write" => UNCHANGED Current
    <3> SUFFICES ASSUME NEW op, NEW pc, NEW config, NEW secret,
                        Begins(c, op, pc, h, config, secret), pc # "write"
                 PROVE  UNCHANGED Current
      OBVIOUS
    <3> DEFINE r == [op |-> op, pc |-> pc, host |-> h, config |-> config,
                     secret |-> secret, hosts |-> Empty]
    <3>1. call' = [call EXCEPT ![c] = r] /\ r.pc # "write" /\ ~At(c, "write") /\ UNCHANGED file
      BY DEF Begins, At
    <3> QED
      BY <3>1, QuietStep
  <2>3. CASE CreateHost(c, h)
    BY <2>2, <2>3 DEF CreateHost
  <2>4. CASE UpdateHost(c, h)
    BY <2>2, <2>4 DEF UpdateHost
  <2>5. CASE DeleteHost(c, h)
    BY <2>2, <2>5 DEF DeleteHost
  <2>6. CASE SetHostLastPath(c, h)
    BY <2>2, <2>6 DEF SetHostLastPath
  <2> QED
    BY <2>1, <2>3, <2>4, <2>5, <2>6
<1>2. CASE GetByID(c)
  <2>1. CASE call' = [call EXCEPT ![c] = Idle]
    BY <1>2, <2>1, <1>i, QuietStep DEF GetByID, At
  <2>2. CASE \E x : call' = [call EXCEPT ![c].pc = "load", ![c].config = x]
    <3>1. PICK x : call' = [call EXCEPT ![c].pc = "load", ![c].config = x]
      BY <2>2
    <3>2. call' = [call EXCEPT ![c] = [call[c] EXCEPT !.pc = "load", !.config = x]]
      BY <3>1
    <3>3. [call[c] EXCEPT !.pc = "load", !.config = x].pc = "load"
      BY <1>0 DEF CallType
    <3> QED
      BY <1>2, <3>2, <3>3, QuietStep DEF GetByID, At
  <2> QED
    BY <1>2, <2>1, <2>2 DEF GetByID, Returns
<1>3. CASE Load(c)
  <2>1. CASE call' = [call EXCEPT ![c] = Idle]
    BY <1>3, <2>1, <1>i, QuietStep DEF Load, At
  <2>2. CASE call' = [call EXCEPT ![c].pc = "truncate", ![c].hosts = file]
    <3>1. call' = [call EXCEPT ![c] = [call[c] EXCEPT !.pc = "truncate", !.hosts = file]]
      BY <2>2
    <3>2. [call[c] EXCEPT !.pc = "truncate", !.hosts = file].pc = "truncate"
      BY <1>0 DEF CallType
    <3> QED
      BY <1>3, <3>1, <3>2, QuietStep DEF Load, At
  <2> QED
    BY <1>3, <2>1, <2>2 DEF Load, Returns
<1>4. CASE LoadFails(c)
  BY <1>4, <1>i, QuietStep DEF LoadFails, AfterFailedLoad, At
<1>5. CASE Unset(c)
  <2> DEFINE r == [call[c] EXCEPT !.pc = IF call[c].op = "delete" THEN "load" ELSE "set"]
  <2>1. r.pc # "write"
    BY <1>0 DEF CallType
  <2> QED
    BY <1>5, <2>1, QuietStep DEF Unset, GoesTo, At
<1>6. CASE Set(c)
  BY <1>6, <1>i, QuietStep DEF Set, Returns, At
<1>7. CASE SetFails(c)
  <2>1. AfterFailedSet(c).pc # "write"
    BY <1>0 DEF AfterFailedSet, CallType, Idle
  <2> QED
    BY <1>7, <2>1, QuietStep DEF SetFails, At
<1> QED
  BY <1>1, <1>2, <1>3, <1>4, <1>5, <1>6, <1>7 DEF Step

\* A crash of an application that is not writing.
LEMMA CrashKeeps ==
  ASSUME Inv, Inv', Crash, \A c \in Call : ~At(c, "write")
  PROVE  UNCHANGED Current
BY SameTable DEF Crash, Idle, At

LEMMA RefineStep == Inv /\ Inv' /\ [Next]_vars => [Table_!Next]_Current
<1> SUFFICES ASSUME Inv, Inv', [Next]_vars
             PROVE  Table_!Next \/ UNCHANGED Current
  OBVIOUS
<1>1. ASSUME NEW c \in Call, Begin(c) \/ Step(c)
      PROVE  Table_!Next \/ UNCHANGED Current
  BY <1>1, WriteIsPut, FailureLoses, TruncateKeeps, OthersKeep
<1>2. CASE Crash
  BY <1>2, FailureLoses, CrashKeeps
<1>3. CASE UNCHANGED vars
  BY <1>3 DEF vars, Current, At
<1> QED
  BY <1>1, <1>2, <1>3 DEF Next

\* The hosts file, seen as the mutex lets it be seen, implements HostTable:
\* every step of the calls changes one host or nothing, no update undoes the
\* change of another, and a file that is lost stays lost.
THEOREM StoreIsTable == Spec => OneHostAtATime
<1>1. Init => Table_!Init
  BY TableInit
<1>2. Inv /\ Inv' /\ [Next]_vars => [Table_!Next]_Current
  BY RefineStep
<1> QED
  BY <1>1, <1>2, Invariance, PTL DEF Spec, OneHostAtATime, Table_!Spec

-----------------------------------------------------------------------------
(***************************************************************************)
(* The secrets.  A host of the table that ought to have a secret and has   *)
(* none is the business of a call in flight: one that is going to store    *)
(* the secret, or to take the host out of the table.                       *)
(***************************************************************************)

\* The call will end with a secret for its host, or without the host.
Owes(c) ==
  \/ call[c].op \in {"delete", "rollback"}
  \/ call[c].op \in {"create", "update"} /\ call[c].secret

\* What a call can be at the places where it is; an update was seen to be of a
\* host that is there.
StageInv ==
  \A c \in Call :
    /\ call[c].op = "none" <=> At(c, "idle")
    /\ At(c, "get") => call[c].op = "path"
    /\ At(c, "unset") => call[c].op \in {"create", "update", "delete"} /\ Owes(c)
    /\ At(c, "set") => call[c].op \in {"create", "update"} /\ Owes(c)
    /\ call[c].pc \in {"truncate", "write"} /\ call[c].op \in {"update", "path"} =>
         call[c].hosts[call[c].host] # None

\* An identifier that was not given out is nowhere.
UsedInv ==
  /\ \A c \in Call : ~At(c, "idle") => call[c].host \in used
  /\ wants \subseteq used
  /\ Current # Torn => \A h \in Host : Current[h] # None => h \in used

\* The call is creating a host that is not in the table yet.
Creating(c) == call[c].op = "create" /\ call[c].pc \in {"load", "truncate", "write"}

\* The call has not seen its host in the table, or takes it out.
Harmless(c) ==
  \/ At(c, "idle") \/ call[c].op = "delete"
  \/ call[c].op \in {"update", "path"} /\ call[c].pc \in {"get", "load"}

\* Until a host is created it is not there, and no other call about it, except
\* one that deletes it, has got past reading the file.
FreshInv ==
  \A c \in Call : Creating(c) =>
    /\ ~call[c].secret => call[c].host \notin wants
    /\ Current # Torn => Current[call[c].host] = None
    /\ \A d \in Call \ {c} : call[d].host = call[c].host => Harmless(d)

\* The debt.
DebtInv ==
  Current # Torn =>
    \A h \in Host :
      Current[h] # None /\ h \in wants \ broken /\ h \notin keychain =>
        \E c \in Call : call[c].host = h /\ Owes(c)

SecretInv == StageInv /\ UsedInv /\ FreshInv /\ DebtInv

LEMMA SecretInit == Init => SecretInv
<1> SUFFICES ASSUME Init PROVE SecretInv
  OBVIOUS
<1>1. \A c \in Call : call[c].op = "none" /\ call[c].pc = "idle"
  BY DEF Init, Idle
<1>2. Current = Empty
  BY <1>1 DEF Init, Current, At
<1>3. StageInv
  BY <1>1 DEF StageInv, At
<1>4. UsedInv
  BY <1>1, <1>2 DEF UsedInv, At, Empty, Init
<1>5. FreshInv
  BY <1>1 DEF FreshInv, Creating
<1>6. DebtInv
  BY DEF DebtInv, Init
<1> QED
  BY <1>3, <1>4, <1>5, <1>6 DEF SecretInv

\* With the mutex free nobody writes, and the file is what there is to see.
LEMMA FreeIsCurrent ==
  ASSUME Inv, Free
  PROVE  Current = file
BY ConstantsAssumption DEF Inv, LockInv, Free, Current, At

\* A call that begins is in debt for its host, whether it brings a secret for
\* it or takes the secret away.
LEMMA BeginsSecret ==
  ASSUME Inv, Inv', SecretInv, NEW c \in Call, NEW h \in Host,
         NEW op, NEW pc, NEW config, NEW secret, Begins(c, op, pc, h, config, secret),
         UNCHANGED Current,
         \/ op = "create" /\ pc = "load" /\ h \notin used
         \/ op = "update" /\ pc = "load" /\ h \in used
         \/ op = "delete" /\ pc = "unset" /\ h \in used
         \/ op = "path" /\ pc = "get" /\ h \in used,
         used' = IF op = "create" THEN used \cup {h} ELSE used,
         wants' = IF op = "create" /\ secret THEN wants \cup {h} ELSE wants
  PROVE  SecretInv'
<1> DEFINE r == [op |-> op, pc |-> pc, host |-> h, config |-> config,
                 secret |-> secret, hosts |-> Empty]
<1>1. \A d \in Call : call'[d] = IF d = c THEN r ELSE call[d]
  BY DEF Begins, Inv, TypeOK
<1>2. r.op = op /\ r.pc = pc /\ r.host = h /\ r.secret = secret
  OBVIOUS
<1> HIDE DEF r
<1>3. UNCHANGED <<keychain, broken>> /\ At(c, "idle")
  BY DEF Begins
<1>4. StageInv'
  BY <1>1, <1>2 DEF SecretInv, StageInv, Owes, At
<1>5. UsedInv'
  BY <1>1, <1>2 DEF SecretInv, UsedInv, At
<1>6. FreshInv'
  <2> SUFFICES ASSUME NEW d \in Call, Creating(d)'
               PROVE  /\ ~call'[d].secret => call'[d].host \notin wants'
                      /\ Current' # Torn => Current'[call'[d].host] = None
                      /\ \A e \in Call \ {d} : call'[e].host = call'[d].host => Harmless(e)'
    BY DEF FreshInv
  <2>1. CASE d = c
    <3>1. op = "create" /\ h \notin used
      BY <1>1, <1>2, <2>1 DEF Creating
    <3>2. \A e \in Call \ {c} : ~At(e, "idle") => call[e].host # h
      BY <3>1 DEF SecretInv, UsedInv
    <3>3. h \notin wants /\ (Current # Torn => Current[h] = None)
      BY <3>1 DEF SecretInv, UsedInv
    <3> QED
      BY <1>1, <1>2, <2>1, <3>1, <3>2, <3>3 DEF Harmless, At
  <2>2. CASE d # c
    <3>1. call'[d] = call[d] /\ Creating(d)
      BY <1>1, <2>2 DEF Creating
    <3>2. call[d].host \in used
      BY <3>1 DEF SecretInv, UsedInv, Creating, At
    <3>3. call[d].host = h => op # "create"
      BY <3>2
    <3>4. ~call[d].secret => call[d].host \notin wants'
      BY <3>1, <3>3 DEF SecretInv, FreshInv
    <3>5. Current' # Torn => Current'[call'[d].host] = None
      BY <3>1 DEF SecretInv, FreshInv
    <3>6. \A e \in Call \ {d} : call'[e].host = call[d].host => Harmless(e)'
      BY <1>1, <1>2, <3>1, <3>3 DEF SecretInv, FreshInv, Harmless, At
    <3> QED
      BY <3>1, <3>4, <3>5, <3>6
  <2> QED
    BY <2>1, <2>2
<1>7. DebtInv'
  <2> SUFFICES ASSUME Current' # Torn, NEW g \in Host,
                      Current'[g] # None, g \in wants' \ broken', g \notin keychain'
               PROVE  \E d \in Call : call'[d].host = g /\ Owes(d)'
    BY DEF DebtInv
  <2>1. CASE g \in wants
    <3>1. PICK d \in Call : call[d].host = g /\ Owes(d)
      BY <1>3, <2>1 DEF SecretInv, DebtInv
    <3>2. d # c
      BY <1>3, <3>1 DEF SecretInv, StageInv, Owes
    <3> QED
      BY <1>1, <3>1, <3>2 DEF Owes
  <2>2. CASE g \notin wants
    <3>1. op = "create" /\ g = h /\ secret
      BY <2>2
    <3> QED
      BY <1>1, <1>2, <3>1 DEF Owes
  <2> QED
    BY <2>1, <2>2
<1> QED
  BY <1>4, <1>5, <1>6, <1>7 DEF SecretInv

\* The four calls that begin.
LEMMA BeginSecret ==
  ASSUME Inv, Inv', SecretInv, NEW c \in Call, Begin(c)
  PROVE  SecretInv'
<1>0. UNCHANGED Current
  BY OthersKeep
<1>1. PICK h \in Host :
        CreateHost(c, h) \/ UpdateHost(c, h) \/ DeleteHost(c, h) \/ SetHostLastPath(c, h)
  BY DEF Begin
<1>2. CASE CreateHost(c, h)
  <2>1. PICK v \in Value, secret \in BOOLEAN :
          /\ Begins(c, "create", "load", h, [value |-> v, path |-> NoPath], secret)
          /\ wants' = IF secret THEN wants \cup {h} ELSE wants
    BY <1>2 DEF CreateHost
  <2> QED
    BY <1>0, <1>2, <2>1, BeginsSecret DEF CreateHost
<1>3. CASE UpdateHost(c, h)
  <2>1. PICK v \in Value, secret \in BOOLEAN :
          Begins(c, "update", "load", h, [value |-> v, path |-> NoPath], secret)
    BY <1>3 DEF UpdateHost
  <2> QED
    BY <1>0, <1>3, <2>1, BeginsSecret DEF UpdateHost
<1>4. CASE DeleteHost(c, h)
  BY <1>0, <1>4, BeginsSecret DEF DeleteHost
<1>5. CASE SetHostLastPath(c, h)
  <2>1. PICK p \in Path : Begins(c, "path", "get", h, [value |-> None, path |-> p], FALSE)
    BY <1>5 DEF SetHostLastPath
  <2> QED
    BY <1>0, <1>5, <2>1, BeginsSecret DEF SetHostLastPath
<1> QED
  BY <1>1, <1>2, <1>3, <1>4, <1>5

\* A step of call c about its host h, which leaves the other hosts of the
\* table and the other secrets as they are.  It must not make a host appear,
\* or want a secret, while the host is being created by another call; and if h
\* ends up without the secret it wants, c is still in debt for it, or was not
\* before.
LEMMA MoveSecret ==
  ASSUME Inv, Inv', SecretInv, NEW c \in Call, ~At(c, "idle"),
         NEW h, h = call[c].host, NEW r, call' = [call EXCEPT ![c] = r], UNCHANGED used,
         Current' # Torn => Current # Torn /\ \A g \in Host \ {h} : Current'[g] = Current[g],
         wants \subseteq wants', wants' \subseteq wants \cup {h},
         keychain \ {h} \subseteq keychain', broken \subseteq broken',
         \* StageInv of r
         (r.op = "none") <=> (r.pc = "idle"),
         r.pc # "get",
         r.pc = "unset" => Owes(c)' /\ r.op \in {"create", "update", "delete"},
         r.pc = "set" => Owes(c)' /\ r.op \in {"create", "update"},
         r.pc \in {"truncate", "write"} /\ r.op \in {"update", "path"} => r.hosts[r.host] # None,
         \* what r is about
         r.pc # "idle" => r.host = h,
         Creating(c)' => /\ Creating(c) /\ r.secret = call[c].secret /\ UNCHANGED wants
                         /\ (Current' # Torn => Current'[h] = Current[h]),
         \* another call may be creating h
         Harmless(c) =>
           /\ UNCHANGED wants
           /\ Current' # Torn => Current'[h] \in {None, Current[h]}
           /\ Harmless(c)' \/ (Current # Torn /\ Current[h] # None),
         \* the debt
         Current' # Torn /\ Current'[h] # None /\ h \in wants' \ broken' /\ h \notin keychain' =>
           \/ r.host = h /\ Owes(c)'
           \/ ~Owes(c) /\ Current[h] # None /\ h \in wants /\ h \notin keychain
  PROVE  SecretInv'
<1>1. \A d \in Call : call'[d] = IF d = c THEN r ELSE call[d]
  BY DEF Inv, TypeOK
<1>2. h \in Host /\ h \in used
  BY DEF Inv, CallInv, SecretInv, UsedInv
<1>3. StageInv'
  BY <1>1 DEF SecretInv, StageInv, Owes, At
<1>4. UsedInv'
  <2>1. \A d \in Call : ~At(d, "idle")' => call'[d].host \in used'
    BY <1>1, <1>2 DEF SecretInv, UsedInv, At
  <2>2. wants' \subseteq used'
    BY <1>2 DEF SecretInv, UsedInv
  <2>3. Current' # Torn => \A g \in Host : Current'[g] # None => g \in used'
    BY <1>2 DEF SecretInv, UsedInv
  <2> QED
    BY <2>1, <2>2, <2>3 DEF UsedInv
<1>5. FreshInv'
  <2> SUFFICES ASSUME NEW d \in Call, Creating(d)'
               PROVE  /\ ~call'[d].secret => call'[d].host \notin wants'
                      /\ Current' # Torn => Current'[call'[d].host] = None
                      /\ \A e \in Call \ {d} : call'[e].host = call'[d].host => Harmless(e)'
    BY DEF FreshInv
  <2>1. CASE d = c
    <3>1. Creating(c) /\ r.secret = call[c].secret /\ call'[c].host = h /\ call'[c] = r
      BY <1>1, <2>1 DEF Creating
    <3>2. ~r.secret => h \notin wants'
      BY <2>1, <3>1 DEF SecretInv, FreshInv
    <3>3. Current' # Torn => Current'[h] = None
      BY <2>1, <3>1 DEF SecretInv, FreshInv
    <3>4. \A e \in Call \ {d} : call'[e].host = h => Harmless(e)'
      BY <1>1, <2>1, <3>1 DEF SecretInv, FreshInv, Harmless, At
    <3> QED
      BY <2>1, <3>1, <3>2, <3>3, <3>4
  <2>2. CASE d # c
    <3>1. call'[d] = call[d] /\ Creating(d)
      BY <1>1, <2>2 DEF Creating
    <3>2. call[d].host \in Host
      BY <3>1 DEF Inv, CallInv, Creating, At
    <3>3. CASE call[d].host # h
      <4>1. ~call[d].secret => call[d].host \notin wants'
        BY <3>1, <3>3 DEF SecretInv, FreshInv
      <4>2. Current' # Torn => Current'[call[d].host] = None
        BY <3>1, <3>2, <3>3 DEF SecretInv, FreshInv
      <4>3. \A e \in Call \ {d} : call'[e].host = call[d].host => Harmless(e)'
        BY <1>1, <3>1, <3>3 DEF SecretInv, FreshInv, Harmless, At
      <4> QED
        BY <3>1, <4>1, <4>2, <4>3
    <3>4. CASE call[d].host = h
      <4>1. Harmless(c) /\ (Current # Torn => Current[h] = None) /\ (~call[d].secret => h \notin wants)
        BY <2>2, <3>1, <3>4 DEF SecretInv, FreshInv
      <4>2. \A e \in Call \ {d} : call'[e].host = h => Harmless(e)'
        BY <1>1, <3>1, <3>4, <4>1 DEF SecretInv, FreshInv, Harmless, At
      <4> QED
        BY <3>1, <3>4, <4>1, <4>2
    <3> QED
      BY <3>3, <3>4
  <2> QED
    BY <2>1, <2>2
<1>6. DebtInv'
  <2> SUFFICES ASSUME Current' # Torn, NEW g \in Host,
                      Current'[g] # None, g \in wants' \ broken', g \notin keychain'
               PROVE  \E d \in Call : call'[d].host = g /\ Owes(d)'
    BY DEF DebtInv
  <2>1. ASSUME g # h \/ ~Owes(c),
               Current[g] # None, g \in wants, g \notin keychain
        PROVE  \E d \in Call : call'[d].host = g /\ Owes(d)'
    <3>1. PICK d \in Call : call[d].host = g /\ Owes(d)
      BY <2>1 DEF SecretInv, DebtInv
    <3>2. d # c
      BY <2>1, <3>1
    <3>3. call'[d] = call[d]
      BY <1>1, <3>2
    <3> QED
      BY <3>1, <3>3 DEF Owes
  <2>2. CASE g # h
    BY <2>1, <2>2
  <2>3. CASE g = h
    <3>1. CASE r.host = h /\ Owes(c)'
      BY <1>1, <2>3, <3>1
    <3>2. CASE ~Owes(c) /\ Current[h] # None /\ h \in wants /\ h \notin keychain
      BY <2>1, <2>3, <3>2
    <3> QED
      BY <2>3, <3>1, <3>2
  <2> QED
    BY <2>2, <2>3
<1> QED
  BY <1>3, <1>4, <1>5, <1>6 DEF SecretInv

\* The steps of a call: each pays the debt, keeps it, or is excused by a failure.
LEMMA StepSecret ==
  ASSUME Inv, Inv', SecretInv, NEW c \in Call, Step(c)
  PROVE  SecretInv'
<1> DEFINE h == call[c].host
<1>0. /\ call[c] \in CallType /\ h \in Host /\ h \in used /\ ~At(c, "idle")
      /\ call \in [Call -> CallType]
  BY DEF Inv, TypeOK, CallType, CallInv, SecretInv, UsedInv, Step, At,
         GetByID, Load, LoadFails, Truncate, Write, WriteFails, Unset, Set, SetFails
<1>i. Idle.op = "none" /\ Idle.pc = "idle"
  BY DEF Idle
<1>u. GetByID(c) \/ Load(c) \/ LoadFails(c) \/ Unset(c) \/ Set(c) \/ SetFails(c) => UNCHANGED Current
  BY OthersKeep DEF Step, GetByID, Load, LoadFails, Unset, Set, SetFails, Truncate, Write, WriteFails, At
<1>1. CASE GetByID(c)
  <2>1. UNCHANGED Current /\ Current = file /\ At(c, "get") /\ call[c].op = "path"
    BY <1>1, <1>u, FreeIsCurrent DEF GetByID, SecretInv, StageInv
  <2>2. ~Owes(c)
    BY <2>1 DEF Owes
  <2>3. CASE call' = [call EXCEPT ![c] = Idle]
    <3>1. call'[c] = Idle
      BY <1>0, <2>3
    <3>2. ~Creating(c)' /\ Harmless(c)'
      BY <1>i, <3>1 DEF Creating, Harmless, At
    <3> QED
      BY <1>0, <1>1, <1>i, <2>1, <2>2, <2>3, <3>2, MoveSecret DEF GetByID, history
  <2>4. CASE \E x : call' = [call EXCEPT ![c].pc = "load", ![c].config = x]
    <3>1. PICK x : call' = [call EXCEPT ![c].pc = "load", ![c].config = x]
      BY <2>4
    <3> DEFINE r == [call[c] EXCEPT !.pc = "load", !.config = x]
    <3>2. call' = [call EXCEPT ![c] = r] /\ call'[c] = r
      BY <1>0, <3>1
    <3>3. r.pc = "load" /\ r.op = "path" /\ r.host = h
      BY <1>0, <2>1 DEF CallType
    <3> HIDE DEF r
    <3>4. ~Creating(c)' /\ Harmless(c)'
      BY <3>2, <3>3 DEF Creating, Harmless
    <3> QED
      BY <1>0, <1>1, <2>1, <2>2, <3>2, <3>3, <3>4, MoveSecret DEF GetByID, history
  <2> QED
    BY <1>1, <2>3, <2>4 DEF GetByID, Returns
<1>2. CASE Load(c)
  <2>1. UNCHANGED Current /\ Current = file /\ file # Torn /\ At(c, "load")
    BY <1>2, <1>u, FreeIsCurrent DEF Load
  <2>2. CASE call[c].op \in {"update", "path"} /\ file[h] = None
    <3>1. call' = [call EXCEPT ![c] = Idle] /\ call'[c] = Idle
      BY <1>0, <1>2, <2>2 DEF Load, Returns
    <3>2. ~Creating(c)' /\ Harmless(c)'
      BY <1>i, <3>1 DEF Creating, Harmless, At
    <3> QED
      BY <1>0, <1>2, <1>i, <2>1, <2>2, <3>1, <3>2, MoveSecret DEF Load, history
  <2>3. CASE ~(call[c].op \in {"update", "path"} /\ file[h] = None)
    <3> DEFINE r == [call[c] EXCEPT !.pc = "truncate", !.hosts = file]
    <3>1. call' = [call EXCEPT ![c] = r] /\ call'[c] = r
      BY <1>0, <1>2, <2>3 DEF Load
    <3>2. /\ r.pc = "truncate" /\ r.op = call[c].op /\ r.host = h
          /\ r.secret = call[c].secret /\ r.hosts = file
      BY <1>0 DEF CallType
    <3> HIDE DEF r
    <3>3. (Owes(c)' <=> Owes(c)) /\ (Creating(c)' => Creating(c))
      BY <2>1, <3>1, <3>2 DEF Owes, Creating, At
    <3>4. Harmless(c) => Harmless(c)' \/ Current[h] # None
      BY <2>1, <2>3, <3>1, <3>2 DEF Harmless, At
    <3>5. r.op # "none"
      BY <1>0, <3>2 DEF SecretInv, StageInv
    <3> QED
      BY <1>0, <1>2, <2>1, <2>3, <3>1, <3>2, <3>3, <3>4, <3>5, MoveSecret, ZenonT(60) DEF Load, history
  <2> QED
    BY <2>2, <2>3
<1>3. CASE LoadFails(c)
  <2>1. UNCHANGED Current /\ Current = Torn
    BY <1>3, <1>u, FreeIsCurrent DEF LoadFails
  <2>2. call' = [call EXCEPT ![c] = Idle] /\ call'[c] = Idle
    BY <1>0, <1>3 DEF LoadFails, AfterFailedLoad
  <2>3. ~Creating(c)' /\ Harmless(c)'
    BY <1>i, <2>2 DEF Creating, Harmless, At
  <2> QED
    BY <1>0, <1>3, <1>i, <2>1, <2>2, <2>3, MoveSecret DEF LoadFails
<1>4. CASE Truncate(c)
  <2> DEFINE r == [call[c] EXCEPT !.pc = "write"]
  <2>1. UNCHANGED Current
    BY <1>4, TruncateKeeps
  <2>2. call' = [call EXCEPT ![c] = r] /\ call'[c] = r
    BY <1>0, <1>4 DEF Truncate, GoesTo
  <2>3. /\ r.pc = "write" /\ r.op = call[c].op /\ r.host = h
        /\ r.secret = call[c].secret /\ r.hosts = call[c].hosts
    BY <1>0 DEF CallType
  <2> HIDE DEF r
  <2>4. (Owes(c)' <=> Owes(c)) /\ (Creating(c)' => Creating(c))
    BY <1>4, <2>2, <2>3 DEF Owes, Creating, Truncate, At
  <2>5. Harmless(c) => Harmless(c)'
    BY <1>4, <2>2, <2>3 DEF Harmless, Truncate, At
  <2>6. /\ r.op # "none"
        /\ r.op \in {"update", "path"} => r.hosts[h] # None
    BY <1>0, <1>4, <2>3 DEF SecretInv, StageInv, Truncate, At
  <2> QED
    BY <1>0, <1>4, <2>1, <2>2, <2>3, <2>4, <2>5, <2>6, MoveSecret DEF Truncate, history
<1>5. CASE Write(c)
  <2>1. At(c, "write") /\ Current = call[c].hosts /\ call[c].hosts \in Table /\ Current # Torn
    BY <1>0, <1>5, WriterIsUnique, ConstantsAssumption DEF Write, CallType
  <2> DEFINE x == IF call[c].op \in {"delete", "rollback"} THEN None ELSE call[c].config
  <2>2. Current' = [Current EXCEPT ![h] = x]
    BY <1>5, <2>1, WriteCurrent DEF Changed
  <2>3. /\ \A g \in Host \ {h} : Current'[g] = Current[g]
        /\ Current'[h] = x
    BY <1>0, <2>1, <2>2 DEF Table
  <2> DEFINE r == IF call[c].op \in {"create", "update"} /\ call[c].secret
                    THEN [call[c] EXCEPT !.pc = "unset", !.config = None, !.hosts = Empty] ELSE Idle
  <2>4. call' = [call EXCEPT ![c] = r] /\ call'[c] = r
    BY <1>0, <1>5 DEF Write, Returns
  <2>w. UNCHANGED <<used, wants, keychain, broken>>
    BY <1>5 DEF Write, history
  <2>5. CASE call[c].op \in {"create", "update"} /\ call[c].secret
    <3>1. /\ r.pc = "unset" /\ r.op = call[c].op /\ r.host = h
          /\ r.secret = call[c].secret
      BY <1>0, <2>5 DEF CallType
    <3> HIDE DEF r, x
    <3>2. Owes(c)' /\ ~Creating(c)'
      BY <2>4, <2>5, <3>1 DEF Owes, Creating
    <3>3. ~Harmless(c)
      BY <2>1, <2>5 DEF Harmless, At
    <3> QED
      BY <1>0, <2>1, <2>3, <2>4, <2>w, <2>5, <3>1, <3>2, <3>3, MoveSecret, ZenonT(60)
  <2>6. CASE ~(call[c].op \in {"create", "update"} /\ call[c].secret)
    <3>1. r = Idle
      BY <2>6
    <3> HIDE DEF r
    <3>2. ~Creating(c)' /\ Harmless(c)'
      BY <1>i, <2>4, <3>1 DEF Creating, Harmless, At
    <3>3. Harmless(c) => x = None
      BY <2>1 DEF Harmless, At
    <3>4. call[c].op = "create" => h \notin wants
      BY <2>1, <2>6 DEF SecretInv, FreshInv, Creating, At
    <3>5. call[c].op \in {"update", "path"} => Current[h] # None
      BY <2>1 DEF SecretInv, StageInv, At
    <3>6. call[c].op \in {"delete", "rollback", "create", "update", "path"}
      BY <1>0 DEF SecretInv, StageInv, CallType
    <3>7. x # None /\ h \in wants => ~Owes(c) /\ Current[h] # None
      BY <2>6, <3>4, <3>5, <3>6 DEF Owes
    <3> HIDE DEF x
    <3>8. Current' # Torn => Current # Torn /\ \A g \in Host \ {h} : Current'[g] = Current[g]
      BY <2>1, <2>3
    <3>9. Harmless(c) => Current'[h] \in {None, Current[h]}
      BY <2>3, <3>3
    <3>10. Current'[h] # None /\ h \in wants' =>
             ~Owes(c) /\ Current[h] # None /\ h \in wants
      BY <2>3, <2>w, <3>7
    <3> QED
      BY <1>0, <1>i, <2>4, <2>w, <3>1, <3>2, <3>8, <3>9, <3>10, MoveSecret, ZenonT(60)
  <2> QED
    BY <2>5, <2>6
<1>6. CASE WriteFails(c)
  <2>1. Current' = Torn
    BY <1>6, FailureTears
  <2>2. call' = [call EXCEPT ![c] = Idle] /\ call'[c] = Idle
    BY <1>0, <1>6 DEF WriteFails, Returns
  <2>3. ~Creating(c)' /\ Harmless(c)'
    BY <1>i, <2>2 DEF Creating, Harmless, At
  <2> QED
    BY <1>0, <1>6, <1>i, <2>1, <2>2, <2>3, MoveSecret DEF WriteFails
<1>7. CASE Unset(c)
  <2> DEFINE r == [call[c] EXCEPT !.pc = IF call[c].op = "delete" THEN "load" ELSE "set"]
  <2>1. UNCHANGED Current
    BY <1>7, <1>u
  <2>2. call' = [call EXCEPT ![c] = r] /\ call'[c] = r
    BY <1>0, <1>7 DEF Unset, GoesTo
  <2>3. /\ r.op = call[c].op /\ r.host = h /\ r.secret = call[c].secret
        /\ r.pc = IF r.op = "delete" THEN "load" ELSE "set"
    BY <1>0 DEF CallType
  <2> HIDE DEF r
  <2>4. r.op \in {"create", "update", "delete"} /\ Owes(c)
    BY <1>7, <2>3 DEF SecretInv, StageInv, Unset
  <2>5. Owes(c)' /\ ~Creating(c)'
    BY <2>2, <2>3, <2>4 DEF Owes, Creating
  <2>6. Harmless(c) => Harmless(c)'
    BY <1>7, <2>2, <2>3 DEF Harmless, Unset, At
  <2> QED
    BY <1>0, <1>7, <2>1, <2>2, <2>3, <2>4, <2>5, <2>6, MoveSecret DEF Unset, history
<1>8. CASE Set(c)
  <2>1. UNCHANGED Current
    BY <1>8, <1>u
  <2>2. call' = [call EXCEPT ![c] = Idle] /\ call'[c] = Idle
    BY <1>0, <1>8 DEF Set, Returns
  <2>3. ~Creating(c)' /\ ~Harmless(c)
    BY <1>8, <1>i, <2>2 DEF Creating, Harmless, At, Set, SecretInv, StageInv
  <2> QED
    BY <1>0, <1>8, <1>i, <2>1, <2>2, <2>3, MoveSecret DEF Set
<1>9. CASE SetFails(c)
  <2>1. UNCHANGED Current
    BY <1>9, <1>u
  <2>2. call' = [call EXCEPT ![c] = AfterFailedSet(c)] /\ call'[c] = AfterFailedSet(c)
    BY <1>0, <1>9 DEF SetFails
  <2>3. ~Harmless(c) /\ call[c].op \in {"create", "update"}
    BY <1>9 DEF Harmless, At, SetFails, SecretInv, StageInv
  <2>4. CASE call[c].op = "create"
    <3> DEFINE r == [call[c] EXCEPT !.op = "rollback", !.pc = "load"]
    <3>1. r.op = "rollback" /\ r.pc = "load" /\ r.host = h
      BY <1>0 DEF CallType
    <3>2. AfterFailedSet(c) = r
      BY <2>4 DEF AfterFailedSet
    <3> HIDE DEF r
    <3>3. Owes(c)' /\ ~Creating(c)'
      BY <2>2, <3>1, <3>2 DEF Owes, Creating
    <3> QED
      BY <1>0, <1>9, <2>1, <2>2, <2>3, <2>4, <3>1, <3>2, <3>3, MoveSecret DEF SetFails
  <2>5. CASE call[c].op # "create"
    <3>1. AfterFailedSet(c) = Idle
      BY <2>5 DEF AfterFailedSet
    <3>2. ~Creating(c)'
      BY <1>i, <2>2, <3>1 DEF Creating
    <3> QED
      BY <1>0, <1>9, <1>i, <2>1, <2>2, <2>3, <2>5, <3>1, <3>2, MoveSecret DEF SetFails
  <2> QED
    BY <2>4, <2>5
<1> QED
  BY <1>1, <1>2, <1>3, <1>4, <1>5, <1>6, <1>7, <1>8, <1>9 DEF Step

\* A crash excuses the hosts of the calls in flight.
LEMMA CrashSecret ==
  ASSUME Inv, Inv', SecretInv, Crash
  PROVE  SecretInv'
<1>1. \A c \in Call : call'[c].op = "none" /\ call'[c].pc = "idle"
  BY DEF Crash, Idle
<1>2. UNCHANGED Current \/ Current' = Torn
  BY CrashKeeps, FailureTears
<1>3. StageInv'
  BY <1>1 DEF StageInv, At
<1>4. UsedInv'
  <2>1. UNCHANGED <<used, wants>>
    BY DEF Crash
  <2> QED
    BY <1>1, <1>2, <2>1 DEF UsedInv, SecretInv, At
<1>5. FreshInv'
  BY <1>1 DEF FreshInv, Creating
<1>6. DebtInv'
  <2> SUFFICES ASSUME Current' # Torn, NEW g \in Host,
                      Current'[g] # None, g \in wants' \ broken', g \notin keychain'
               PROVE  FALSE
    BY DEF DebtInv
  <2>1. Current # Torn /\ Current[g] # None /\ g \in wants \ broken /\ g \notin keychain
    BY <1>2 DEF Crash
  <2>2. PICK d \in Call : call[d].host = g /\ Owes(d)
    BY <2>1 DEF SecretInv, DebtInv
  <2>3. ~At(d, "idle")
    BY <2>2 DEF SecretInv, StageInv, Owes
  <2>4. g \in broken'
    BY <2>2, <2>3 DEF Crash
  <2> QED
    BY <2>4
<1> QED
  BY <1>3, <1>4, <1>5, <1>6 DEF SecretInv

LEMMA SecretNext == Inv /\ Inv' /\ SecretInv /\ [Next]_vars => SecretInv'
<1> SUFFICES ASSUME Inv, Inv', SecretInv, [Next]_vars
             PROVE  SecretInv'
  OBVIOUS
<1>1. ASSUME NEW c \in Call, Begin(c) \/ Step(c)
      PROVE  SecretInv'
  BY <1>1, BeginSecret, StepSecret
<1>2. CASE Crash
  BY <1>2, CrashSecret
<1>3. CASE UNCHANGED vars
  <2>1. UNCHANGED Current
    BY <1>3 DEF vars, Current, At
  <2> QED
    BY <1>3, <2>1 DEF vars, history, SecretInv, StageInv, UsedInv, FreshInv, DebtInv,
                      Creating, Harmless, Owes, At
<1> QED
  BY <1>1, <1>2, <1>3 DEF Next

\* With no call in flight nobody owes.
LEMMA DebtPaid ==
  ASSUME Inv, SecretInv
  PROVE  HostHasSecret
<1> SUFFICES ASSUME file # Torn, NEW h \in Host, file[h] # None, h \in wants \ broken,
                    \A c \in Call : call[c].host # h
             PROVE  h \in keychain
  BY DEF HostHasSecret
<1>1. Current = file
  <2>1. \A c \in Call : ~At(c, "write")
    BY DEF Inv, LockInv
  <2> QED
    BY <2>1 DEF Current
<1> QED
  BY <1>1 DEF SecretInv, DebtInv

\* However the calls about a host race, a host of the table that was given a
\* secret has one in the keychain when no call is about it any more, unless a
\* call about it failed or was cut short.
THEOREM SecretsKept == Spec => []HostHasSecret
<1>1. Inv /\ Inv' /\ SecretInv /\ [Next]_vars => SecretInv'
  BY SecretNext
<1>2. Inv /\ SecretInv => HostHasSecret
  BY DebtPaid
<1> QED
  BY <1>1, <1>2, SecretInit, Invariance, PTL DEF Spec
=============================================================================
