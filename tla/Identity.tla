------------------------------ MODULE Identity ------------------------------
(***************************************************************************)
(* dashboard/server/src/services/identity.ts: the operator's name picks this  *)
(* checkout's task prefix.  A sync reads the local prefix and the shared       *)
(* registry, selects a prefix, claims it in the registry and writes the local *)
(* configuration, with awaits in between, while other operators sync and the *)
(* registry changes by git.  Tasks are opened under that prefix (newTask.ts) and grants recorded  *)
(* in its owner's name (authorizationGrants.ts).                             *)
(***************************************************************************)
EXTENDS Integers, Sequences, FiniteSets

CONSTANTS
    Names,
    Prefixes,       \* 1..n: the order of their text
    Reserved,       \* RESERVED_PREFIXES
    Candidates,     \* prefixCandidatesFromName of each name
    Base,           \* the prefix of office.config.yaml; 0 when none
    MaxPulls        \* bound: changes of the registry from elsewhere

VARIABLES
    registry,       \* office.team.yaml: the owner of each prefix
    local,          \* office.config.local.yaml: the prefix, 0 when none
    sync,           \* the sync of each name
    tmp,            \* whose text the server's temporary registry file has, "none" without one
    pulls

vars == <<registry, local, sync, tmp, pulls>>

Owner == Names \cup {"nobody", "colleague"}
Found == Prefixes \cup {0}

Sync == [at : {"idle", "reading", "selecting", "claiming", "opening", "writing", "renaming",
               "local", "done", "refused"},
         effective : Found, seen : [Prefixes -> Owner], text : [Prefixes -> Owner],
         prefix : Found, found : {"none", "local", "base"}]
NoSync == [at |-> "idle", effective |-> 0, seen |-> [p \in Prefixes |-> "nobody"],
           text |-> [p \in Prefixes |-> "nobody"], prefix |-> 0, found |-> "none"]

TypeOK ==
    /\ registry \in [Prefixes -> Owner]
    /\ local \in Found
    /\ sync \in [Names -> Sync]
    /\ tmp \in Names \cup {"none"}

Init ==
    /\ registry = [p \in Prefixes |-> "nobody"] /\ local = 0
    /\ sync = [n \in Names |-> NoSync] /\ tmp = "none" /\ pulls = 0

-----------------------------------------------------------------------------

\* readEffectivePrefix: the local configuration wins over the base.
Effective == IF local # 0 THEN local ELSE Base

\* syncDashboardIdentity: the effective prefix, then the registry.
Begin(n) ==
    /\ sync[n].at \in {"idle", "done", "refused"}
    /\ sync' = [sync EXCEPT ![n] = [NoSync EXCEPT !.at = "reading", !.effective = Effective,
          !.found = IF local # 0 THEN "local" ELSE IF Base # 0 THEN "base" ELSE "none"]]
    /\ UNCHANGED <<registry, local, tmp, pulls>>

ReadRegistry(n) ==
    /\ sync[n].at = "reading"
    /\ sync' = [sync EXCEPT ![n].at = "selecting", ![n].seen = registry]
    /\ UNCHANGED <<registry, local, tmp, pulls>>

ConfiguredIsFree(s) ==
    s.effective # 0 /\ s.effective \notin Reserved /\ s.seen[s.effective] = "nobody"

\* The name's own prefix, else a configured one that nobody owns, else the first
\* candidate that is free or the name's; 0 when there is none.
Select(n) ==
    LET s    == sync[n]
        mine == {p \in Prefixes \ Reserved : s.seen[p] = n}
        free == {k \in DOMAIN Candidates[n] : s.seen[Candidates[n][k]] \in {"nobody", n}}
    IN  CASE mine # {} -> CHOOSE p \in mine : \A q \in mine : p <= q
          [] mine = {} /\ ConfiguredIsFree(s) -> s.effective
          [] mine = {} /\ ~ConfiguredIsFree(s) ->
                IF free = {} THEN 0 ELSE Candidates[n][CHOOSE k \in free : \A j \in free : k <= j]

Selects(n) ==
    /\ sync[n].at = "selecting"
    /\ sync' = [sync EXCEPT ![n].prefix = Select(n),
                            ![n].at = IF Select(n) = 0 THEN "refused" ELSE "claiming"]
    /\ UNCHANGED <<registry, local, tmp, pulls>>

\* registerPrefix: another owner is a conflict, the own claim is enough.
Claim(n) ==
    /\ sync[n].at = "claiming"
    /\ LET now == registry[sync[n].prefix]
       IN  sync' = [sync EXCEPT ![n].at = IF now = "nobody" THEN "opening"
                                         ELSE IF now = n THEN "local" ELSE "refused"]
    /\ UNCHANGED <<registry, local, tmp, pulls>>

\* The text to edit is read once more; with a line for the prefix in it by now, the edited
\* text has a duplicate key and does not parse.
OpenText(n) ==
    /\ sync[n].at = "opening"
    /\ sync' = [sync EXCEPT ![n].text = registry,
          ![n].at = IF registry[sync[n].prefix] = "nobody" THEN "writing" ELSE "refused"]
    /\ UNCHANGED <<registry, local, tmp, pulls>>

\* The text with one more line goes into a temporary file named after the process, which
\* the syncs of one server share,
WriteClaim(n) ==
    /\ sync[n].at = "writing"
    /\ tmp' = n
    /\ sync' = [sync EXCEPT ![n].at = "renaming"]
    /\ UNCHANGED <<registry, local, pulls>>

\* and whatever is in that file replaces the registry; another sync may have moved it.
Claimed(n) == [sync[n].text EXCEPT ![sync[n].prefix] = n]

Rename(n) ==
    /\ sync[n].at = "renaming"
    /\ registry' = IF tmp = "none" THEN registry ELSE Claimed(tmp)
    /\ sync' = [sync EXCEPT ![n].at = IF tmp = "none" THEN "refused" ELSE "local"]
    /\ tmp' = "none"
    /\ UNCHANGED <<local, pulls>>

\* writeLocalPrefix, unless the prefix came from there.
WriteLocal(n) ==
    /\ sync[n].at = "local"
    /\ local' = IF sync[n].effective = sync[n].prefix /\ sync[n].found = "local"
                THEN local ELSE sync[n].prefix
    /\ sync' = [sync EXCEPT ![n].at = "done"]
    /\ UNCHANGED <<registry, tmp, pulls>>

\* git pull: a colleague's claim comes in, or a claim was taken out.
Pull ==
    /\ pulls < MaxPulls
    /\ pulls' = pulls + 1
    /\ \E p \in Prefixes, o \in {"nobody", "colleague"} : registry' = [registry EXCEPT ![p] = o]
    /\ UNCHANGED <<local, sync, tmp>>

Next ==
    \/ \E n \in Names : \/ Begin(n) \/ ReadRegistry(n) \/ Selects(n) \/ Claim(n) \/ OpenText(n)
                      \/ WriteClaim(n) \/ Rename(n) \/ WriteLocal(n)
    \/ Pull

Spec == Init /\ [][Next]_vars

-----------------------------------------------------------------------------

\* identity.ts 132-180, 212: a sync never selects a reserved prefix, and never takes or drops
\* one that the shared registry gives to somebody, also when that came in after the prefix
\* was selected: only what came in after the text of a claim was read is lost to the claim.
OwnerStands ==
    /\ TypeOK'
    /\ \A n \in Names : sync[n].at = "local" => sync[n].prefix \notin Reserved
    /\ pulls' = pulls =>
         \A p \in Prefixes : registry[p] # "nobody" /\ registry'[p] # registry[p] =>
            tmp # "none" /\ sync[tmp].text[p] # registry[p]

OwnersStand == [][OwnerStands]_vars
=============================================================================
