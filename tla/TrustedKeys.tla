---------------------------- MODULE TrustedKeys -----------------------------
(***************************************************************************)
(* The publisher keys a kernel trusts: the directory keys/trusted, which   *)
(* the operator changes with `kernos keys trust` and with rm, and the      *)
(* kernel's cache of it, which a signature check refreshes when the        *)
(* fingerprint of the directory differs from the one it was loaded under   *)
(* (resolve_key, refresh_trusted and trust_fingerprint of kernel.rs,       *)
(* load_dir of keys.rs).  Every file operation is a step of its own.       *)
(*                                                                         *)
(* `keys trust` names a file after the key in it, so a file is either      *)
(* empty, between its creation and its writing, or holds its key.  Every   *)
(* write stamps the file with a new modification time.                     *)
(***************************************************************************)
EXTENDS Integers, FiniteSets

CONSTANTS Keys, MaxWrites

VARIABLES
    dir,      \* the files: key -> [full, modified]
    clock,    \* the modification time of the last write
    cache,    \* [loaded, keys, fingerprint]
    pinned,   \* keys trusted for the life of the process
    check,    \* the signature check under way, or the last one
    slipped   \* keys whose file was written while a check was reading the files

vars == <<dir, clock, cache, pinned, check, slipped>>

\* A signature check: what it looks for, the fingerprint it began with, the
\* files it has to read and the keys it has read; and, for the properties,
\* whether the directory has stayed as it was and whether the key was found.
NewCheck(phase, k, fingerprint) ==
    [phase |-> phase, key |-> k, fingerprint |-> fingerprint, todo |-> {}, read |-> {},
     calm |-> TRUE, found |-> FALSE]

\* Name, modification time and size of every file.
trust_fingerprint == {<<k, dir[k].modified, dir[k].full>> : k \in DOMAIN dir}

InDir == {k \in DOMAIN dir : dir[k].full}

\* A change of the directory ends the calm of a check under way.
Disturb == check' = [check EXCEPT !.calm = FALSE]

\* `kernos keys trust`: fs::write creates or empties the file...
TrustCreate(k) ==
    /\ clock < MaxWrites
    /\ clock' = clock + 1
    /\ dir' = [j \in DOMAIN dir \cup {k} |-> IF j = k THEN [full |-> FALSE, modified |-> clock + 1] ELSE dir[j]]
    /\ Disturb
    /\ UNCHANGED <<cache, pinned, slipped>>

\* ... and writes it.
TrustWrite(k) ==
    /\ k \in DOMAIN dir /\ ~dir[k].full
    /\ clock' = clock + 1
    /\ dir' = [dir EXCEPT ![k] = [full |-> TRUE, modified |-> clock + 1]]
    /\ Disturb
    /\ slipped' = IF check.phase \in {"load", "read"} THEN slipped \cup {k} ELSE slipped
    /\ UNCHANGED <<cache, pinned>>

Remove(k) ==
    /\ k \in InDir
    /\ dir' = [j \in DOMAIN dir \ {k} |-> dir[j]]
    /\ Disturb
    /\ UNCHANGED <<clock, cache, pinned, slipped>>

trust_key(k) ==
    /\ check.phase = "idle"
    /\ pinned' = pinned \cup {k}
    /\ UNCHANGED <<dir, clock, cache, check, slipped>>

\* resolve_key takes the lock of the cache and looks at the directory.
resolve_key(k) ==
    /\ check.phase \in {"idle", "done"}
    /\ check' = NewCheck(IF cache.loaded /\ cache.fingerprint = trust_fingerprint THEN "answer" ELSE "load",
                         k, trust_fingerprint)
    /\ UNCHANGED <<dir, clock, cache, pinned, slipped>>

load_dir ==
    /\ check.phase = "load"
    /\ check' = [check EXCEPT !.phase = "read", !.todo = DOMAIN dir]
    /\ UNCHANGED <<dir, clock, cache, pinned, slipped>>

\* A file that is gone, or empty, is skipped.
load(k) ==
    /\ check.phase = "read" /\ k \in check.todo
    /\ check' = [check EXCEPT !.todo = @ \ {k}, !.read = IF k \in InDir THEN @ \cup {k} ELSE @]
    /\ UNCHANGED <<dir, clock, cache, pinned, slipped>>

\* Mutation: the fingerprint is taken after the files were read.
refresh_trusted_Late ==
    /\ check.phase = "read" /\ check.todo = {}
    /\ cache' = [loaded |-> TRUE, keys |-> check.read, fingerprint |-> trust_fingerprint]
    /\ check' = [check EXCEPT !.phase = "answer"]
    /\ UNCHANGED <<dir, clock, pinned, slipped>>

refresh_trusted ==
    /\ check.phase = "read" /\ check.todo = {}
    /\ cache' = [loaded |-> TRUE, keys |-> check.read, fingerprint |-> check.fingerprint]
    /\ check' = [check EXCEPT !.phase = "answer"]
    /\ UNCHANGED <<dir, clock, pinned, slipped>>

Answer ==
    /\ check.phase = "answer"
    /\ check' = [check EXCEPT !.phase = "done", !.found = check.key \in pinned \cup cache.keys]
    /\ UNCHANGED <<dir, clock, cache, pinned, slipped>>

\* A process that has just started remembers nothing.
NoCache == [loaded |-> FALSE, keys |-> {}, fingerprint |-> {}]

Init ==
    /\ dir = [k \in {} |-> 0] /\ clock = 0 /\ pinned = {} /\ slipped = {}
    /\ cache = NoCache
    /\ \E k \in Keys : check = NewCheck("idle", k, {})

OperatorStep == \E k \in Keys : TrustCreate(k) \/ TrustWrite(k) \/ Remove(k)

KernelStep ==
    \/ \E k \in Keys : trust_key(k) \/ resolve_key(k) \/ load(k)
    \/ load_dir \/ refresh_trusted \/ Answer
=============================================================================
