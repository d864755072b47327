---------------------------- MODULE KernelProcess ----------------------------
(***************************************************************************)
(* A kernel process over its data directory: KernelOpen brings it up, and  *)
(* while it is up it checks signatures with the cache of TrustedKeys.  The *)
(* operator changes the trusted directory at any time; the cache and the   *)
(* pinned keys live in memory and are gone when the process ends, however  *)
(* it ends (Kernel::open and struct Kernel in kernel.rs).                  *)
(***************************************************************************)
EXTENDS KernelOpen

CONSTANTS Keys, MaxWrites

VARIABLES dir, clock, cache, pinned, check, slipped

T == INSTANCE TrustedKeys

trustVars == <<dir, clock, cache, pinned, check, slipped>>
processVars == <<openVars, trustVars>>

ProcessInit == OpenInit /\ T!Init

\* The process ends, and a check under way with it.
End ==
    /\ Stop
    /\ cache' = T!NoCache /\ pinned' = {} /\ slipped' = {}
    /\ check' = T!NewCheck("idle", check.key, {})
    /\ UNCHANGED <<dir, clock>>

ProcessNext ==
    \/ OpenStep /\ UNCHANGED trustVars
    \/ End
    \/ T!OperatorStep /\ UNCHANGED openVars
    \/ phase = "up" /\ T!KernelStep /\ UNCHANGED openVars

ProcessSpec == ProcessInit /\ [][ProcessNext]_processVars

-----------------------------------------------------------------------------
\* A check has ended, and the directory stayed as it was while it ran.
Answered == check.phase = "done" /\ check.calm

\* A check sees the directory as it is: it finds a key whose file was in
\* place when it began ("so a key trusted a moment ago is usable at once") and
\* none whose file was gone ("a key removed a moment ago stops being accepted,
\* with no restart"), whatever changed during earlier checks and restarts.
\* The one exception is a key whose file was written while an earlier check
\* was reading the files (refresh_trusted takes the fingerprint first).
ChecksSeeTheDirectory ==
    Answered => /\ check.key \in T!InDir => check.found
                /\ check.found => check.key \in T!InDir \cup pinned \cup slipped

-----------------------------------------------------------------------------
(* The inductive invariant behind the theorems of ProcessProofs.             *)

TrustTypeOK ==
    /\ clock \in Nat
    /\ \A k \in DOMAIN dir : dir[k].full \in BOOLEAN /\ dir[k].modified \in 0..clock
    /\ check = [phase |-> check.phase, key |-> check.key, fingerprint |-> check.fingerprint,
                todo |-> check.todo, read |-> check.read, calm |-> check.calm, found |-> check.found]
    /\ check.phase \in {"idle", "load", "read", "answer", "done"}
    /\ check.calm \in BOOLEAN

\* Fingerprint f speaks of the past, and keys, as far as they are read from the files it
\* names, are right of it: what is not named slipped in, and what is named and not among
\* keys or still to read is gone for good, since every write has a time of its own.
ReadRight(f, keys, todo) ==
    /\ \A e \in f : e[2] \in 0..clock
    /\ \A k \in keys : k \in slipped \/ \E m \in 0..clock : <<k, m, TRUE>> \in f
    /\ \A k \in T!InDir : <<k, dir[k].modified, TRUE>> \in f => k \in keys \cup todo

\* The cache is right of the fingerprint it was loaded under, and a check under way of
\* the one it began with, which is that of the directory as long as nothing disturbs it.
CacheInv ==
    /\ TrustTypeOK
    /\ ReadRight(cache.fingerprint, cache.keys, {})
    /\ check.phase = "load" => ReadRight(check.fingerprint, check.read, DOMAIN dir)
    /\ check.phase = "read" => ReadRight(check.fingerprint, check.read, check.todo)
    /\ check.phase \in {"load", "read"} =>
          \A k \in T!InDir : k \in slipped \/ <<k, dir[k].modified, TRUE>> \in check.fingerprint
    /\ check.phase = "answer" => cache.fingerprint = check.fingerprint
    /\ check.phase # "idle" /\ check.calm => check.fingerprint = T!trust_fingerprint
    /\ ChecksSeeTheDirectory
=============================================================================
