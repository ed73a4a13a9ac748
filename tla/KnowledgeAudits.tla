--------------------------- MODULE KnowledgeAudits ---------------------------
(***************************************************************************)
(* dashboard/server/src/services/knowledgeReviews.ts, KnowledgeReviewService: *)
(* loading the audit files through the validator, with a cache of the results *)
(* in memory and on disk.  A load awaits between reading a file's signature,  *)
(* looking at the cache, validating and reading the policy's signature, and   *)
(* audits, the policy and the validator may change in between.                *)
(*                                                                         *)
(* A signature (size and mtime) is the number of the last change, which also  *)
(* stands for the content; 0 is a missing file.                              *)
(***************************************************************************)
EXTENDS Integers, FiniteSets

CONSTANTS
    Plain, Auto,    \* audit files: proposals only, and auto-write under the policy
    PolicyChanges,  \* whether the policy file may change
    MaxChanges,     \* bound: changes of any file
    MaxRestarts     \* bound: restarts of the server

VARIABLES
    audits,     \* the audit files
    contract,   \* the validator with its schema
    policy,     \* the auto-write policy file
    cache,      \* cache and invalidCache; known is contractSignature
    known,
    disk,       \* validated-reviews.json; adopted is diskCacheLoaded
    adopted,
    load,       \* the load in progress (pendingLoad)
    dirty,      \* something changed since that load began
    result,     \* what the last load that finished returned
    changes, restarts

vars == <<audits, contract, policy, cache, known, disk, adopted, load, dirty,
          result, changes, restarts>>

Files == Plain \cup Auto
Sigs == 0..MaxChanges + 1

\* What the validator says of a file: the content and rules it saw.  `valid` is
\* false for a missing file; a plain audit's validity does not depend on the policy.
Verdict == [valid : BOOLEAN, audit : Sigs, contract : Sigs, policy : Sigs]

Validated(f, a, c, p) ==
    [valid |-> a # 0 /\ (IF f \in Auto THEN (a + p) % 2 = 0 ELSE a % 2 = 1),
     audit |-> a, contract |-> c, policy |-> IF f \in Auto THEN p ELSE 0]

\* A cached verdict and its keys; policySig is null (0) without a policy source
\* and is not kept for an invalid file.
Entry == [sig : Sigs, policySig : Sigs, verdict : Verdict]
NoEntry == [sig |-> 0, policySig |-> 0,
            verdict |-> [valid |-> FALSE, audit |-> 0, contract |-> 0, policy |-> 0]]
Empty == [f \in Files |-> NoEntry]

Load == [at : {"idle", "files", "cache", "validate"}, contract : Sigs,
         sig : [Files -> Sigs], left : SUBSET Files, stored : SUBSET Files,
         found : [Files -> Verdict], changed : BOOLEAN]
NoLoad == [at |-> "idle", contract |-> 0, sig |-> [f \in Files |-> 0], left |-> {},
           stored |-> Files, found |-> [f \in Files |-> NoEntry.verdict], changed |-> FALSE]

TypeOK ==
    /\ audits \in [Files -> Sigs] /\ {contract, policy, known} \subseteq Sigs
    /\ cache \in [Files -> Entry]
    /\ disk \in [contract : Sigs, cache : [Files -> Entry]]
    /\ load \in Load /\ {adopted, dirty} \subseteq BOOLEAN
    /\ result \in [Files -> Verdict]

Init ==
    /\ audits = [f \in Files |-> 1] /\ contract = 1 /\ policy = 1
    /\ cache = Empty /\ known = 0 /\ adopted = FALSE
    /\ disk = [contract |-> 0, cache |-> Empty]
    /\ load = NoLoad /\ dirty = TRUE /\ result = NoLoad.found
    /\ changes = 0 /\ restarts = 0

-----------------------------------------------------------------------------

\* An audit is written or deleted, the validator or the policy is changed.
Change ==
    /\ changes < MaxChanges
    /\ changes' = changes + 1 /\ dirty' = TRUE
    /\ \/ \E f \in Files, new \in {0, changes + 2} :
             audits' = [audits EXCEPT ![f] = new] /\ UNCHANGED <<contract, policy>>
       \/ contract' = changes + 2 /\ UNCHANGED <<audits, policy>>
       \/ PolicyChanges /\ policy' = changes + 2 /\ UNCHANGED <<audits, contract>>
    /\ UNCHANGED <<cache, known, disk, adopted, load, result, restarts>>

\* loadAllUncached: the directory and the contract's signature.  Requests that
\* come while a load is in progress share it.
Begin ==
    /\ load.at = "idle"
    /\ load' = [NoLoad EXCEPT !.at = "files", !.contract = contract]
    /\ dirty' = FALSE
    /\ UNCHANGED <<audits, contract, policy, cache, known, disk, adopted, result,
                   changes, restarts>>

\* loadDiskCache and the check of the contract.
Adopted == IF ~adopted /\ disk.contract = load.contract THEN disk.cache ELSE cache

CacheUnderContract == IF known # 0 /\ known # load.contract THEN Empty ELSE Adopted

\* The candidates with their signatures; results of files that are gone are dropped.
ReadFiles ==
    /\ load.at = "files"
    /\ LET live == {f \in Files : audits[f] # 0}
       IN  /\ cache' = [f \in Files |-> IF f \in live THEN CacheUnderContract[f] ELSE NoEntry]
           /\ load' = [load EXCEPT !.at = "cache", !.sig = audits, !.left = live,
                                   !.changed = CacheUnderContract # cache']
    /\ adopted' = TRUE /\ known' = load.contract
    /\ UNCHANGED <<audits, contract, policy, disk, dirty, result, changes, restarts>>

\* policySignature: null for a review without a policy source.
PolicySig(f) == IF f \in Auto THEN policy ELSE 0

Hit(f) == /\ cache[f].sig = load.sig[f]
          /\ cache[f].verdict.valid => cache[f].policySig = PolicySig(f)

\* One pass over the cache; what it does not answer is validated.
LookUp ==
    /\ load.at = "cache"
    /\ LET hits == {f \in load.left : Hit(f)}
       IN  load' = [load EXCEPT !.at = "validate", !.left = @ \ hits,
                      !.found = [f \in Files |-> IF f \in hits THEN cache[f].verdict ELSE @[f]],
                      !.changed = @ \/ load.left # hits]
    /\ UNCHANGED <<audits, contract, policy, cache, known, disk, adopted, dirty,
                   result, changes, restarts>>

\* The validator reads the file, the rules and the policy.
Validate(f) ==
    /\ load.at = "validate" /\ f \in load.left
    /\ load' = [load EXCEPT !.found[f] = Validated(f, audits[f], contract, policy),
                            !.left = @ \ {f}, !.stored = @ \ {f}]
    /\ UNCHANGED <<audits, contract, policy, cache, known, disk, adopted, dirty, result,
                   changes, restarts>>

\* The verdict is kept under the signature from before the validation, and under
\* the policy's signature from after it; an invalid one without the latter.
Store(f) ==
    /\ load.at = "validate" /\ f \notin load.left \cup load.stored
    /\ load' = [load EXCEPT !.stored = @ \cup {f}]
    /\ LET v == load.found[f]
       IN  cache' = [cache EXCEPT ![f] = [sig |-> load.sig[f], verdict |-> v,
                                          policySig |-> IF v.valid THEN PolicySig(f) ELSE 0]]
    /\ UNCHANGED <<audits, contract, policy, known, disk, adopted, dirty, result,
                   changes, restarts>>

\* saveDiskCache when something was validated or dropped, and the answer.
Finish ==
    /\ load.at = "validate" /\ load.left = {} /\ load.stored = Files
    /\ result' = load.found
    /\ load' = NoLoad
    /\ disk' = IF load.changed THEN [contract |-> load.contract, cache |-> cache] ELSE disk
    /\ UNCHANGED <<audits, contract, policy, cache, known, adopted, dirty, changes, restarts>>

Restart ==
    /\ restarts < MaxRestarts
    /\ restarts' = restarts + 1
    /\ cache' = Empty /\ known' = 0 /\ adopted' = FALSE
    /\ load' = NoLoad /\ dirty' = TRUE
    /\ UNCHANGED <<audits, contract, policy, disk, result, changes>>

Next ==
    \/ Change \/ Begin \/ ReadFiles \/ LookUp \/ Finish \/ Restart
    \/ \E f \in Files : Validate(f) \/ Store(f)

Spec == Init /\ [][Next]_vars

-----------------------------------------------------------------------------

Truth(f) == IF audits[f] = 0 THEN NoEntry.verdict
            ELSE Validated(f, audits[f], contract, policy)

\* README 119-122: with nothing changed since it began, a load returns what the
\* validator says of every file now, however the caches came about.
CurrentWhenQuiet(fs) ==
    load.at = "idle" /\ ~dirty => \A f \in fs : result[f] = Truth(f)

\* Audits are as current as the files, the validator and the schema they were
\* checked with, across earlier loads those changed under and across restarts.
AuditsAreCurrent == TypeOK /\ CurrentWhenQuiet(IF policy = 1 THEN Files ELSE Plain)

\* The same for the policy file.
AuditsFollowPolicy == CurrentWhenQuiet(Files)
=============================================================================
