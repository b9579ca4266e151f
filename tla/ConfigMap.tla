------------------------------ MODULE ConfigMap ------------------------------
(***************************************************************************)
(* What a client of the config service may expect of Create, Update and    *)
(* Delete.  Each call takes effect at one moment between its request and   *)
(* its answer: it sets the paths it names, and leaves the others as it has *)
(* found them at one moment between its request and its effect.  A call    *)
(* that fails has no effect; one that dies with its process may have had   *)
(* it.  What was changed between the two moments is lost, whether or not   *)
(* it has been acknowledged; what was there before the request is not.     *)
(*                                                                         *)
(* A configuration gives each path a value.  The values that a call sets   *)
(* are named by the call, and None is the value of a path that is not set. *)
(***************************************************************************)
CONSTANTS Calls, Paths, None

VARIABLES
  conf,   \* the configuration
  req,    \* what each call asks for
  found,  \* the configuration as the call has found it
  status  \* of each call: "idle", "called", "looked", "applied", "ok", "error" or "dead"

vars == <<conf, req, found, status>>

Requests ==
  [op : {"create", "update"}, paths : SUBSET Paths \ {{}}]
    \cup [op : {"delete"}, paths : {{p} : p \in Paths}]
    \cup [op : {"remove"}, paths : {Paths}]

Empty == [p \in Paths |-> None]

\* What request r of call c makes of configuration f.
Effect(f, c, r) ==
  [p \in Paths |-> CASE p \in r.paths /\ r.op \in {"create", "update"} -> c
                     [] p \in r.paths /\ r.op \in {"delete", "remove"} -> None
                     [] p \notin r.paths /\ r.op = "create" -> None
                     [] p \notin r.paths /\ r.op # "create" -> f[p]]

Call(c) ==
  /\ status[c] = "idle"
  /\ \E r \in Requests : req' = [req EXCEPT ![c] = r]
  /\ status' = [status EXCEPT ![c] = "called"]
  /\ UNCHANGED <<conf, found>>

Look(c) ==
  /\ status[c] = "called"
  /\ found' = [found EXCEPT ![c] = conf]
  /\ status' = [status EXCEPT ![c] = "looked"]
  /\ UNCHANGED <<conf, req>>

Apply(c) ==
  /\ \/ status[c] = "called" /\ conf' = Effect(conf, c, req[c])
     \/ status[c] = "looked" /\ conf' = Effect(found[c], c, req[c])
  /\ status' = [status EXCEPT ![c] = "applied"]
  /\ UNCHANGED <<req, found>>

Answer(c) ==
  /\ \/ status[c] = "applied" /\ status' = [status EXCEPT ![c] = "ok"]
     \/ status[c] \in {"called", "looked"} /\ status' = [status EXCEPT ![c] = "error"]
     \/ /\ status[c] \in {"called", "looked", "applied"}
        /\ status' = [status EXCEPT ![c] = "dead"]
  /\ UNCHANGED <<conf, req, found>>

Init ==
  /\ conf = Empty
  /\ req = [c \in Calls |-> None]
  /\ found = [c \in Calls |-> Empty]
  /\ status = [c \in Calls |-> "idle"]

Next == \E c \in Calls : Call(c) \/ Look(c) \/ Apply(c) \/ Answer(c)

Spec == Init /\ [][Next]_vars
=============================================================================
