----------------------------- MODULE HostStore ------------------------------
(***************************************************************************)
(* The saved SSH hosts: hosts.json (ssh/hosts.go), the secrets in the      *)
(* keychain (ssh/keychain_darwin_cgo.go, or the stub that always fails)    *)
(* and the calls of app/bindings.go that change them.  Calls run at the    *)
(* same time; the store's mutex covers one read, or one read, change and   *)
(* write of the file, and none of the calls as a whole.  The file is       *)
(* written in place: it is Torn from its truncation until its content is   *)
(* written.  No file is an empty table.                                    *)
(***************************************************************************)
EXTENDS Naturals

CONSTANTS
  Call,       \* calls the frontend may have in flight
  Host,       \* host identifiers, one for each CreateHost
  Value,      \* what a configuration says besides its last path
  Path,       \* last paths
  NoPath,     \* the empty one
  MaxFaults,  \* bound: failures of a write or of the keychain, and crashes
  None, Torn

Config == [value : Value, path : Path]
Table == [Host -> Config \cup {None}]

ASSUME ConstantsAssumption ==
  /\ NoPath \in Path /\ MaxFaults \in Nat
  /\ None \notin Config \cup Call
  /\ Torn \notin Table

VARIABLES
  file,      \* hosts.json: a table, or Torn
  lock,      \* HostStore.mu: the call that has it
  keychain,  \* hosts with a secret in the keychain
  call,      \* the calls in flight, with their local variables
  used,      \* history: identifiers given out
  wants,     \* history: hosts a secret was given for
  broken,    \* history: hosts a call has failed for, or was crashed
  misread,   \* history: a read has failed though nothing else had
  faults     \* failures so far

history == <<used, wants, broken, misread>>
vars == <<file, lock, keychain, call, history, faults>>

Empty == [h \in Host |-> None]
Idle == [op |-> "none", pc |-> "idle", host |-> None, config |-> None, secret |-> FALSE, hosts |-> Empty]

At(c, pc) == call[c].pc = pc
GoesTo(c, pc) == call' = [call EXCEPT ![c].pc = pc]
Returns(c) == call' = [call EXCEPT ![c] = Idle]

Fault == faults < MaxFaults /\ faults' = faults + 1

Init ==
  /\ file = Empty /\ lock = None /\ keychain = {}
  /\ call = [c \in Call |-> Idle]
  /\ used = {} /\ wants = {} /\ broken = {} /\ misread = FALSE /\ faults = 0

-----------------------------------------------------------------------------
Begins(c, op, pc, h, config, secret) ==
  /\ At(c, "idle")
  /\ call' = [call EXCEPT ![c] = [op |-> op, pc |-> pc, host |-> h, config |-> config,
                                  secret |-> secret, hosts |-> Empty]]
  /\ UNCHANGED <<file, lock, keychain, broken, misread, faults>>

\* With a new identifier, and perhaps a secret.
CreateHost(c, h) ==
  /\ h \notin used
  /\ used' = used \cup {h}
  /\ \E v \in Value, secret \in BOOLEAN :
       /\ Begins(c, "create", "load", h, [value |-> v, path |-> NoPath], secret)
       /\ wants' = IF secret THEN wants \cup {h} ELSE wants

\* The configuration comes without a last path, which is so forgotten.
UpdateHost(c, h) ==
  /\ h \in used
  /\ \E v \in Value, secret \in BOOLEAN :
       Begins(c, "update", "load", h, [value |-> v, path |-> NoPath], secret)
  /\ UNCHANGED <<used, wants>>

\* Refused while a session of the host is active; the check is over before
\* the rest begins.
DeleteHost(c, h) ==
  /\ h \in used
  /\ Begins(c, "delete", "unset", h, None, FALSE)
  /\ UNCHANGED <<used, wants>>

SetHostLastPath(c, h) ==
  /\ h \in used
  /\ \E p \in Path : Begins(c, "path", "get", h, [value |-> None, path |-> p], FALSE)
  /\ UNCHANGED <<used, wants>>

-----------------------------------------------------------------------------
\* Mutant of Free: the operations of the store do not exclude each other.
FreeAlways == TRUE

Free == lock = None

\* Mutant of WithPath: the path alone is written back.
WithPathOnly(c, found) == call[c].config

\* The configuration that was found, with the new path.
WithPath(c, found) == [call[c].config EXCEPT !.value = found.value]

\* GetByID, for a configuration to be written back.
GetByID(c) ==
  /\ At(c, "get") /\ Free /\ file # Torn
  /\ LET found == file[call[c].host] IN
     IF found = None THEN Returns(c)
     ELSE call' = [call EXCEPT ![c].pc = "load", ![c].config = WithPath(c, found)]
  /\ UNCHANGED <<file, lock, keychain, history, faults>>

\* loadLocked.  Update of a host that is not there is an error.
Load(c) ==
  /\ At(c, "load") /\ Free /\ file # Torn
  /\ IF call[c].op \in {"update", "path"} /\ file[call[c].host] = None
       THEN Returns(c) /\ UNCHANGED lock
       ELSE /\ lock' = c
            /\ call' = [call EXCEPT ![c].pc = "truncate", ![c].hosts = file]
  /\ UNCHANGED <<file, keychain, history, faults>>

\* Mutant of AfterFailedLoad: the file is read again, until it is whole.
AfterFailedLoadAgain(c) == call[c]

\* The call returns the error.
AfterFailedLoad(c) == Idle

\* The file cannot be parsed.
LoadFails(c) ==
  /\ (At(c, "get") \/ At(c, "load")) /\ Free /\ file = Torn
  /\ call' = [call EXCEPT ![c] = AfterFailedLoad(c)]
  /\ broken' = broken \cup {call[c].host}
  /\ misread' = (misread \/ faults = 0)
  /\ UNCHANGED <<file, lock, keychain, used, wants, faults>>

\* saveLocked: os.WriteFile truncates the file, and then writes it.
Truncate(c) ==
  /\ At(c, "truncate")
  /\ file' = Torn
  /\ GoesTo(c, "write")
  /\ UNCHANGED <<lock, keychain, history, faults>>

\* The table with the call's change.
Changed(c) ==
  [call[c].hosts EXCEPT ![call[c].host] =
     IF call[c].op \in {"delete", "rollback"} THEN None ELSE call[c].config]

\* The store's operation is over; a secret that was given comes next.
Write(c) ==
  /\ At(c, "write")
  /\ file' = Changed(c) /\ lock' = None
  /\ IF call[c].op \in {"create", "update"} /\ call[c].secret
       THEN call' = [call EXCEPT ![c].pc = "unset", ![c].config = None, ![c].hosts = Empty]
       ELSE Returns(c)
  /\ UNCHANGED <<keychain, history, faults>>

\* The write fails half way; the mutex is unlocked by a defer, on errors as
\* well.
WriteFails(c) ==
  /\ At(c, "write") /\ Fault
  /\ lock' = None
  /\ Returns(c)
  /\ broken' = broken \cup {call[c].host}
  /\ UNCHANGED <<file, keychain, used, wants, misread>>

\* KeychainStore.Delete, of DeleteHost or at the beginning of Set; its error
\* is ignored.
Unset(c) ==
  /\ At(c, "unset")
  /\ keychain' = keychain \ {call[c].host}
  /\ GoesTo(c, IF call[c].op = "delete" THEN "load" ELSE "set")
  /\ UNCHANGED <<file, lock, history, faults>>

\* The rest of KeychainStore.Set.
Set(c) ==
  /\ At(c, "set")
  /\ keychain' = keychain \cup {call[c].host}
  /\ wants' = wants \cup {call[c].host}
  /\ Returns(c)
  /\ UNCHANGED <<file, lock, used, broken, misread, faults>>

\* Mutant of AfterFailedSet: the host stays.
AfterFailedSetStays(c) == Idle

\* CreateHost deletes the host again; UpdateHost does not bring the secret
\* back that Set has deleted.
AfterFailedSet(c) ==
  IF call[c].op = "create" THEN [call[c] EXCEPT !.op = "rollback", !.pc = "load"] ELSE Idle

\* The keychain refuses the secret.
SetFails(c) ==
  /\ At(c, "set") /\ Fault
  /\ call' = [call EXCEPT ![c] = AfterFailedSet(c)]
  /\ broken' = IF call[c].op = "create" THEN broken ELSE broken \cup {call[c].host}
  /\ UNCHANGED <<file, lock, keychain, used, wants, misread>>

\* The application ends in the middle, and starts again.
Crash ==
  /\ Fault
  /\ lock' = None /\ call' = [c \in Call |-> Idle]
  /\ broken' = broken \cup {call[c].host : c \in {d \in Call : ~At(d, "idle")}}
  /\ UNCHANGED <<file, keychain, used, wants, misread>>

-----------------------------------------------------------------------------
Begin(c) ==
  \E h \in Host : CreateHost(c, h) \/ UpdateHost(c, h) \/ DeleteHost(c, h) \/ SetHostLastPath(c, h)

Step(c) ==
  \/ GetByID(c) \/ Load(c) \/ LoadFails(c) \/ Truncate(c) \/ Write(c) \/ WriteFails(c)
  \/ Unset(c) \/ Set(c) \/ SetFails(c)

Next == (\E c \in Call : Begin(c) \/ Step(c)) \/ Crash

Spec == Init /\ [][Next]_vars

\* The steps of a call that has begun go on, and a call that waits for the
\* mutex gets it: sync.Mutex is fair to a waiter of a millisecond.
FairSpec == Spec /\ \A c \in Call : SF_vars(Step(c))

-----------------------------------------------------------------------------
CallType == [op : {"none", "create", "update", "delete", "path", "rollback"},
             pc : {"idle", "get", "load", "truncate", "write", "unset", "set"},
             host : Host \cup {None},
             config : [value : Value \cup {None}, path : Path] \cup {None},
             secret : BOOLEAN, hosts : Table]

\* One type invariant.
TypeOK ==
  /\ file \in Table \cup {Torn}
  /\ lock \in Call \cup {None}
  /\ keychain \subseteq Host /\ used \subseteq Host /\ wants \subseteq Host /\ broken \subseteq Host
  /\ call \in [Call -> CallType]
  /\ misread \in BOOLEAN /\ faults \in 0 .. MaxFaults

\* A host that was created with a secret has it in the keychain, whatever
\* calls raced for it, once none is in flight: the host whose secret could
\* not be stored is gone again.  Only a crash or a failed call for the host
\* itself may leave it without.
HostHasSecret ==
  file # Torn =>
    \A h \in Host : /\ file[h] # None /\ h \in wants \ broken
                    /\ \A c \in Call : call[c].host # h
                    => h \in keychain

\* No call finds the file half written unless a write or the application has
\* failed before: nobody reads between truncation and writing.
ReadsWhole == ~misread

\* The table, as the mutex lets it be seen: what the writer has read, while it
\* writes.
Current ==
  IF \E c \in Call : At(c, "write") THEN call[CHOOSE c \in Call : At(c, "write")].hosts ELSE file

Table_ == INSTANCE HostTable WITH Lost <- Torn, table <- Current

\* The calls change one host at a time, none undoes the change of another
\* host, and a torn file is never taken for an empty table.
OneHostAtATime == Table_!Spec

\* A call that has begun ends: no error leaves the mutex locked.
CallsEnd == \A c \in Call : ~At(c, "idle") ~> At(c, "idle")
=============================================================================
