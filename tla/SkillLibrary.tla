---------------------------- MODULE SkillLibrary ----------------------------
(***************************************************************************)
(* One Skill of the library (team_skills/library/repository.py): its       *)
(* version history, the mutation ids already applied to it, and the writes *)
(* of the console, the workbench and the transfer import.  Every write     *)
(* runs in one transaction under the lock of the Skill's head row.  A      *)
(* bundle is its tree hash.                                                *)
(***************************************************************************)
EXTENDS Naturals, Sequences

CONSTANTS
    Trees,         \* bundle contents
    NoTree,        \* no content
    NoBase,        \* base_version left out of a request
    ApiMutations   \* mutation ids of API requests (Idempotency-Key)

ASSUME NoBaseAssumption == NoBase \notin Nat
ASSUME NoTreeAssumption == NoTree \notin Trees

VARIABLES
    versions,   \* skill_versions in order; the head row is the last one
    mutations   \* ids recorded in skill_mutations

libraryVars == <<versions, mutations>>

CurrentVersion == Len(versions)

\* get_skill and read_current_bundle: the Skill exists and is not deleted.
SkillLive == versions # << >> /\ ~versions[Len(versions)].deleted

\* What get_skill tells a caller that goes on to propose an update.
HeadVersion == IF SkillLive THEN CurrentVersion ELSE 0

LibraryInit ==
    /\ versions = << >>
    /\ mutations = {}

-----------------------------------------------------------------------------
(* A definition marked "Mistake" is not part of the model: it is a plausible *)
(* error in the definition below it, which one of the properties rules out.  *)

AppendVersion(m, tree, deleted) ==
    versions' = Append(versions, [tree |-> tree, deleted |-> deleted, mutation |-> m])

\* Mistake: an older base is good enough.
BaseNotAhead(base) == base \in {NoBase} \cup 0..CurrentVersion

\* The base_version check of commit_bundle; otherwise SkillVersionConflict.
BaseMatches(base) == base \in {NoBase, CurrentVersion}

\* Mistake: only the version before is looked at for the mutation id.
NotTheLast(m) == versions # << >> => versions[Len(versions)].mutation # m

\* _replay: a used id is answered from the record, or refused when it comes
\* with another request; neither writes anything.
Unused(m) == m \notin mutations

\* commit_bundle, once its base matches: an identical live tree is recorded
\* as unchanged.
CommitBundle(m, tree) ==
    /\ IF SkillLive /\ versions[CurrentVersion].tree = tree
       THEN UNCHANGED versions
       ELSE AppendVersion(m, tree, FALSE)
    /\ mutations' = mutations \cup {m}

\* The version a successful CommitBundle reports.
CommittedVersion(tree) ==
    IF SkillLive /\ versions[CurrentVersion].tree = tree
    THEN CurrentVersion
    ELSE CurrentVersion + 1

-----------------------------------------------------------------------------
(* API requests *)

\* save_skill, the workbench's saves, a transfer import: with or without the
\* version they were based on.
SaveSkill(m, tree, base) ==
    /\ Unused(m)
    /\ BaseMatches(base)
    /\ CommitBundle(m, tree)

\* commit_rollback: always a new version, restored from a version with content.
Rollback(m, target) ==
    /\ SkillLive
    /\ Unused(m)
    /\ ~versions[target].deleted
    /\ AppendVersion(m, versions[target].tree, FALSE)
    /\ mutations' = mutations \cup {m}

\* commit_delete: a tombstone version that keeps the tree hash.
DeleteSkill(m) ==
    /\ SkillLive
    /\ Unused(m)
    /\ AppendVersion(m, versions[CurrentVersion].tree, TRUE)
    /\ mutations' = mutations \cup {m}

LibraryRequest(m) ==
    \/ \E tree \in Trees, base \in {NoBase, CurrentVersion} : SaveSkill(m, tree, base)
    \/ \E target \in 1..CurrentVersion : Rollback(m, target)
    \/ DeleteSkill(m)

-----------------------------------------------------------------------------

\* No mutation id stands for two versions: a request sent again after its
\* answer was lost, or a validation run again, is not applied again.
MutationAppliedOnce ==
    \A i, j \in 1..Len(versions) :
        versions[i].mutation = versions[j].mutation => i = j
=============================================================================
