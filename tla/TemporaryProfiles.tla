------------------------- MODULE TemporaryProfiles -------------------------
(***************************************************************************)
(* The temporary MAPI profiles of WLM2PST workers.  A worker goes through  *)
(* four stages, each with a profile of its own: the probe of the PST       *)
(* provider, the calibration of the converter, the conversion and the      *)
(* validation.  Between calibration and conversion it sweeps: it deletes   *)
(* every profile whose name has the tool's prefix, the "stale" ones.       *)
(*                                                                         *)
(* The profile store belongs to the Windows user, so workers that convert  *)
(* different trees at the same time share it.  One action is one call of   *)
(* IProfAdmin, IMsgServiceAdmin or MAPILogonEx: other workers act between. *)
(***************************************************************************)
EXTENDS Naturals, FiniteSets

CONSTANTS
  Workers,      \* worker processes of one user
  Profiles,     \* the names "WLM2PST-<guid>" and "WLM2PST-VALIDATE-<guid>"
  NoProfile,
  MaxLaunches,  \* bound: launches of workers altogether
  Faults        \* which calls may fail, see FaultKind

FaultKind ==
  { "crash",      \* the process dies, or the user kills it
    "create",     \* CreateProfile
    "configure",  \* AdminServices, CreateMsgService(Ex), ConfigureMsgService
    "logon",      \* MAPILogonEx
    "work",       \* anything done with the session ends the run
    "remove",     \* DeleteProfile, called explicitly
    "destroy",    \* DeleteProfile again, called by the destructor
    "list",       \* GetProfileTable, SetColumns, QueryRows
    "sweep" }     \* DeleteProfile of a stale profile

ASSUME NoProfileAssumption == NoProfile \notin Profiles
ASSUME LaunchAssumption    == MaxLaunches \in Nat
ASSUME FaultAssumption     == Faults \subseteq FaultKind

Stage == {"probe", "calibrate", "convert", "validate"}

\* Where a worker is.  "logon".."logoff" are skipped by the probe.
Place == {"off", "create", "configure", "logon", "session", "logoff",
          "remove", "destroy", "list", "sweep"}

\* A name without profile, a profile, a profile marked for deletion.
Entry == {"absent", "listed", "marked"}

VARIABLES
  profile,    \* the profile store
  at, stage,  \* where each worker is
  own,        \* TemporaryProfile::name_
  session,    \* the profile its MAPI session is logged on to
  ok,         \* no Status so far ends the run
  stale,      \* what the sweep has still to delete
  launches,   \* launches so far
  abandoned,  \* history: profiles whose worker is gone
  due         \* history: what was abandoned when the worker was launched and
              \* MAPI has not refused to list or delete since

vars == <<profile, at, stage, own, session, ok, stale, launches, abandoned, due>>

Init ==
  /\ profile = [p \in Profiles |-> "absent"]
  /\ at = [w \in Workers |-> "off"]
  /\ stage = [w \in Workers |-> "probe"]
  /\ own = [w \in Workers |-> NoProfile]
  /\ session = [w \in Workers |-> NoProfile]
  /\ ok = [w \in Workers |-> TRUE]
  /\ stale = [w \in Workers |-> {}]
  /\ launches = 0
  /\ abandoned = {}
  /\ due = [w \in Workers |-> {}]

-----------------------------------------------------------------------------
(* MAPI's profile store *)

\* new_guid_string: a name nobody has used or remembers.
Fresh(p) ==
  /\ profile[p] = "absent"
  /\ \A w \in Workers : p # own[w] /\ p \notin stale[w] \union due[w]

\* DeleteProfile of one profile: MAPI only marks a profile that is in use, and
\* deletes it when its last session ends; a profile that is gone stays so.
Delete(p) ==
  profile' = [profile EXCEPT ![p] =
     IF @ # "absent" /\ \E w \in Workers : session[w] = p THEN "marked" ELSE "absent"]

\* What the end of w's session leaves of a profile.
Released(w, p) ==
  IF profile[p] = "marked" /\ session[w] = p
     /\ \A v \in Workers \ {w} : session[v] # p
  THEN "absent" ELSE profile[p]

Go(w, place) == at' = [at EXCEPT ![w] = place]

-----------------------------------------------------------------------------
(* A worker *)

Launch(w) ==
  /\ at[w] = "off" /\ launches < MaxLaunches
  /\ launches' = launches + 1
  /\ Go(w, "create")
  /\ stage' = [stage EXCEPT ![w] = "probe"]
  /\ ok' = [ok EXCEPT ![w] = TRUE]
  /\ due' = [due EXCEPT ![w] = abandoned]
  /\ UNCHANGED <<profile, own, session, stale, abandoned>>

\* Returning from run_worker_app, from any place without profile.
Finish(w) ==
  /\ Go(w, "off")
  /\ stale' = [stale EXCEPT ![w] = {}]
  /\ due' = [due EXCEPT ![w] = {}]
  /\ UNCHANGED stage

\* TemporaryProfile::create
CreateProfile(w) ==
  /\ at[w] = "create"
  /\ \E p \in Profiles :
        /\ Fresh(p)
        /\ profile' = [profile EXCEPT ![p] = "listed"]
        /\ own' = [own EXCEPT ![w] = p]
  /\ Go(w, "configure")
  /\ UNCHANGED <<stage, session, ok, stale, launches, abandoned, due>>

\* CreateProfile fails, or a check between two stages ends the run.
CreateFails(w) ==
  /\ at[w] = "create" /\ "create" \in Faults
  /\ Finish(w)
  /\ UNCHANGED <<profile, own, session, ok, launches, abandoned>>

\* add_unicode_pst_service, probe_unicode_pst_service
Configure(w) ==
  /\ at[w] = "configure"
  /\ profile[own[w]] = "listed"
  /\ Go(w, IF stage[w] = "probe" THEN "remove" ELSE "logon")
  /\ UNCHANGED <<profile, stage, own, session, ok, stale, launches, abandoned, due>>

\* PstStore::logon_and_open
Logon(w) ==
  /\ at[w] = "logon"
  /\ profile[own[w]] = "listed"
  /\ session' = [session EXCEPT ![w] = own[w]]
  /\ Go(w, "session")
  /\ UNCHANGED <<profile, stage, own, ok, stale, launches, abandoned, due>>

\* Mutant: an early return past remove() and past the destructor.
SetUpFailsAndReturns(w) ==
  /\ at[w] \in {"configure", "logon"}
  /\ at[w] \in Faults \/ profile[own[w]] # "listed"
  /\ ok' = [ok EXCEPT ![w] = FALSE]
  /\ own' = [own EXCEPT ![w] = NoProfile]
  /\ Finish(w)
  /\ UNCHANGED <<profile, session, launches, abandoned>>

\* Either call fails; in particular when the profile is gone.
SetUpFails(w) ==
  /\ at[w] \in {"configure", "logon"}
  /\ at[w] \in Faults \/ profile[own[w]] # "listed"
  /\ ok' = [ok EXCEPT ![w] = FALSE]
  /\ Go(w, "remove")
  /\ UNCHANGED <<profile, stage, own, session, stale, launches, abandoned, due>>

\* The calibration, run_import_pipeline or validate_pst, with the opening of
\* the store and of the root folder before it.
Work(w) ==
  /\ at[w] = "session"
  /\ \/ UNCHANGED ok
     \/ "work" \in Faults /\ ok' = [ok EXCEPT ![w] = FALSE]
  /\ Go(w, "logoff")
  /\ UNCHANGED <<profile, stage, own, session, stale, launches, abandoned, due>>

\* Mutant: the store is released without Logoff.
LogoffMissing(w) ==
  /\ at[w] = "logoff"
  /\ Go(w, "remove")
  /\ UNCHANGED <<profile, stage, own, session, ok, stale, launches, abandoned, due>>

\* PstStore::close
Logoff(w) ==
  /\ at[w] = "logoff"
  /\ profile' = [p \in Profiles |-> Released(w, p)]
  /\ session' = [session EXCEPT ![w] = NoProfile]
  /\ Go(w, "remove")
  /\ UNCHANGED <<stage, own, ok, stale, launches, abandoned, due>>

\* The next stage, or the end of the run.
MoveOn(w) ==
  \/ (~ok[w] \/ stage[w] = "validate") /\ Finish(w)
  \/ /\ ok[w] /\ stage[w] = "calibrate"
     /\ Go(w, "list")
     /\ UNCHANGED <<stage, stale, due>>
  \/ /\ ok[w] /\ stage[w] \in {"probe", "convert"}
     /\ Go(w, "create")
     /\ stage' = [stage EXCEPT ![w] = IF @ = "probe" THEN "calibrate" ELSE "validate"]
     /\ UNCHANGED <<stale, due>>

\* TemporaryProfile::remove succeeds; a profile that is gone counts as removed.
Remove(w) ==
  /\ at[w] = "remove"
  /\ Delete(own[w])
  /\ own' = [own EXCEPT ![w] = NoProfile]
  /\ MoveOn(w)
  /\ UNCHANGED <<session, ok, launches, abandoned>>

\* remove() fails.  Only the probe reports that; removed_ stays false.
RemoveFails(w) ==
  /\ at[w] = "remove" /\ "remove" \in Faults
  /\ ok' = [ok EXCEPT ![w] = @ /\ stage[w] # "probe"]
  /\ Go(w, "destroy")
  /\ UNCHANGED <<profile, stage, own, session, stale, launches, abandoned, due>>

\* ~TemporaryProfile calls remove() once more and ignores what it returns.
Destroy(w) ==
  /\ at[w] = "destroy"
  /\ \/ Delete(own[w]) /\ UNCHANGED abandoned
     \/ /\ "destroy" \in Faults
        /\ abandoned' = abandoned \union ({own[w]} \ {p \in Profiles : profile[p] = "absent"})
        /\ UNCHANGED profile
  /\ own' = [own EXCEPT ![w] = NoProfile]
  /\ MoveOn(w)
  /\ UNCHANGED <<session, ok, launches>>

-----------------------------------------------------------------------------
(* cleanup_stale_wlm2pst_profiles *)

\* Mutant: one QueryRows instead of the loop; a page is one row.
ListedFirstPage ==
  {p \in Profiles : /\ profile[p] = "listed"
                    /\ p = CHOOSE q \in Profiles : profile[q] = "listed"}

\* GetProfileTable: the profiles with the prefix; marked ones are not in it.
Listed == {p \in Profiles : profile[p] = "listed"}

ListProfiles(w) ==
  /\ at[w] = "list"
  /\ stale' = [stale EXCEPT ![w] = Listed]
  /\ Go(w, "sweep")
  /\ UNCHANGED <<profile, stage, own, session, ok, launches, abandoned, due>>

\* The table cannot be read: a warning, the run goes on.
ListFails(w) ==
  /\ at[w] = "list" /\ "list" \in Faults
  /\ Go(w, "create")
  /\ stage' = [stage EXCEPT ![w] = "convert"]
  /\ due' = [due EXCEPT ![w] = {}]
  /\ UNCHANGED <<profile, own, session, ok, stale, launches, abandoned>>

\* One DeleteProfile of the loop; its result is only counted.
SweepOne(w) ==
  /\ at[w] = "sweep"
  /\ \E p \in stale[w] :
        /\ stale' = [stale EXCEPT ![w] = @ \ {p}]
        /\ \/ Delete(p) /\ abandoned' = abandoned \ {p} /\ UNCHANGED due
           \/ /\ "sweep" \in Faults
              /\ due' = [due EXCEPT ![w] = @ \ {p}]
              /\ UNCHANGED <<profile, abandoned>>
  /\ UNCHANGED <<at, stage, own, session, ok, launches>>

SweepEnds(w) ==
  /\ at[w] = "sweep" /\ stale[w] = {}
  /\ Go(w, "create")
  /\ stage' = [stage EXCEPT ![w] = "convert"]
  /\ UNCHANGED <<profile, own, session, ok, stale, launches, abandoned, due>>

-----------------------------------------------------------------------------

\* The process dies.  MAPI ends its session; a marked profile that was in use
\* only there is deleted or becomes an ordinary profile again.
Crash(w) ==
  /\ "crash" \in Faults /\ at[w] # "off"
  /\ \E left \in {"absent", "listed"} :
        profile' = [p \in Profiles |->
                      IF Released(w, p) # profile[p] THEN left ELSE profile[p]]
  /\ abandoned' = abandoned \union {p \in {own[w]} \ {NoProfile} : profile'[p] # "absent"}
  /\ own' = [own EXCEPT ![w] = NoProfile]
  /\ session' = [session EXCEPT ![w] = NoProfile]
  /\ Finish(w)
  /\ UNCHANGED <<ok, launches>>

Next ==
  \E w \in Workers :
     \/ Launch(w) \/ Crash(w)
     \/ CreateProfile(w) \/ CreateFails(w)
     \/ Configure(w) \/ Logon(w) \/ SetUpFails(w)
     \/ Work(w) \/ Logoff(w)
     \/ Remove(w) \/ RemoveFails(w) \/ Destroy(w)
     \/ ListProfiles(w) \/ ListFails(w) \/ SweepOne(w) \/ SweepEnds(w)

Spec == Init /\ [][Next]_vars

-----------------------------------------------------------------------------
(* Properties *)

\* Types, and which places have a profile and a session (close() and remove()
\* release both on every path).
TypeOK ==
  /\ profile \in [Profiles -> Entry]
  /\ at \in [Workers -> Place] /\ stage \in [Workers -> Stage]
  /\ own \in [Workers -> Profiles \union {NoProfile}]
  /\ session \in [Workers -> Profiles \union {NoProfile}]
  /\ ok \in [Workers -> BOOLEAN]
  /\ stale \in [Workers -> SUBSET Profiles]
  /\ launches \in Nat /\ abandoned \subseteq Profiles
  /\ due \in [Workers -> SUBSET Profiles]
  /\ \A w \in Workers :
        /\ own[w] = NoProfile <=> at[w] \in {"off", "create", "list", "sweep"}
        /\ session[w] = IF at[w] \in {"session", "logoff"} THEN own[w] ELSE NoProfile

\* No profile is left behind by accident: one that exists belongs to a running
\* worker, or its worker died or was refused its deletion twice
\* (ARCHITECTURE.md: "a profile is never intentionally left behind").
LeftoversAreAbandoned ==
  \A p \in Profiles :
     profile[p] # "absent" => p \in abandoned \/ \E w \in Workers : own[w] = p

\* What was left behind before a worker was launched is gone when it starts to
\* convert, unless MAPI refused, however many workers sweep and crash at the
\* same time; the sweep reads the whole profile table, and none of these
\* deletions is put off because somebody is still logged on.
SweptBeforeConverting ==
  \A w \in Workers :
     at[w] # "off" /\ stage[w] \in {"convert", "validate"}
       => \A p \in due[w] : profile[p] = "absent"
=============================================================================
