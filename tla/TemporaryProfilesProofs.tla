---------------------- MODULE TemporaryProfilesProofs ----------------------
(***************************************************************************)
(* Proofs about TemporaryProfiles for any number of workers, names,        *)
(* launches and any set of faults.                                         *)
(***************************************************************************)
EXTENDS TemporaryProfiles, TLAPS

\* GUIDs: two running workers never have the same profile.
OwnersDiffer ==
  \A v, w \in Workers : own[v] = own[w] /\ v # w => own[v] = NoProfile

\* Only a profile somebody is logged on to is marked, so that a deletion MAPI
\* puts off is one that the end of a running worker carries out.
MarkedInUse ==
  \A p \in Profiles : profile[p] = "marked" => \E w \in Workers : session[w] = p

\* An abandoned profile is still there and nobody's.
AbandonedIsFree ==
  \A p \in abandoned : profile[p] = "listed" /\ \A w \in Workers : own[w] # p

\* What a worker has to find gone is nobody's, and a sweep that has begun
\* knows of it.
DueIsKnown ==
  \A w \in Workers : \A p \in due[w] :
     /\ \A v \in Workers : own[v] # p
     /\ at[w] = "sweep" => profile[p] = "absent" \/ p \in stale[w]

\* Only a worker that was calibrated sweeps.
SweepStage ==
  \A w \in Workers : at[w] \in {"list", "sweep"} => stage[w] = "calibrate"

IInv ==
  /\ TypeOK
  /\ OwnersDiffer
  /\ MarkedInUse
  /\ AbandonedIsFree
  /\ DueIsKnown
  /\ SweepStage
  /\ LeftoversAreAbandoned
  /\ SweptBeforeConverting

-----------------------------------------------------------------------------

\* The initial states satisfy the inductive invariant.
LEMMA InitHolds == Init => IInv
  <1> SUFFICES ASSUME Init PROVE IInv
    OBVIOUS
  <1>1. TypeOK
    BY NoProfileAssumption DEF Init, TypeOK, Entry, Place, Stage
  <1>2. OwnersDiffer /\ MarkedInUse /\ AbandonedIsFree /\ DueIsKnown /\ SweepStage
    BY DEF Init, OwnersDiffer, MarkedInUse, AbandonedIsFree, DueIsKnown, SweepStage
  <1>3. LeftoversAreAbandoned /\ SweptBeforeConverting
    BY DEF Init, LeftoversAreAbandoned, SweptBeforeConverting
  <1> QED
    BY <1>1, <1>2, <1>3 DEF IInv

\* Every action keeps the types.
LEMMA TypeStep == TypeOK /\ [Next]_vars => TypeOK'
  <1> SUFFICES ASSUME TypeOK, [Next]_vars PROVE TypeOK'
    OBVIOUS
  <1> USE NoProfileAssumption DEF TypeOK, Entry, Place, Stage, FaultKind
  <1>1. ASSUME NEW w \in Workers, Launch(w) PROVE TypeOK'
    BY <1>1 DEF Launch, Go
  <1>2. ASSUME NEW w \in Workers, CreateProfile(w) PROVE TypeOK'
    BY <1>2 DEF CreateProfile, Go, Fresh
  <1>3. ASSUME NEW w \in Workers, CreateFails(w) PROVE TypeOK'
    BY <1>3 DEF CreateFails, Go, Finish
  <1>4. ASSUME NEW w \in Workers, Configure(w) PROVE TypeOK'
    BY <1>4 DEF Configure, Go
  <1>5. ASSUME NEW w \in Workers, Logon(w) PROVE TypeOK'
    BY <1>5 DEF Logon, Go
  <1>6. ASSUME NEW w \in Workers, SetUpFails(w) PROVE TypeOK'
    BY <1>6 DEF SetUpFails, Go
  <1>7. ASSUME NEW w \in Workers, Work(w) PROVE TypeOK'
    BY <1>7 DEF Work, Go
  <1>8. ASSUME NEW w \in Workers, Logoff(w) PROVE TypeOK'
    BY <1>8 DEF Logoff, Go, Released
  <1>9. ASSUME NEW w \in Workers, Remove(w) PROVE TypeOK'
    BY <1>9 DEF Remove, Go, Delete, MoveOn, Finish
  <1>10. ASSUME NEW w \in Workers, RemoveFails(w) PROVE TypeOK'
    BY <1>10 DEF RemoveFails, Go
  <1>11. ASSUME NEW w \in Workers, Destroy(w) PROVE TypeOK'
    BY <1>11 DEF Destroy, Go, Delete, MoveOn, Finish
  <1>12. ASSUME NEW w \in Workers, ListProfiles(w) PROVE TypeOK'
    BY <1>12 DEF ListProfiles, Go, Listed
  <1>13. ASSUME NEW w \in Workers, ListFails(w) PROVE TypeOK'
    BY <1>13 DEF ListFails, Go
  <1>14. ASSUME NEW w \in Workers, SweepOne(w) PROVE TypeOK'
    BY <1>14 DEF SweepOne, Go, Delete
  <1>15. ASSUME NEW w \in Workers, SweepEnds(w) PROVE TypeOK'
    BY <1>15 DEF SweepEnds, Go
  <1>16. ASSUME NEW w \in Workers, Crash(w) PROVE TypeOK'
    BY <1>16 DEF Crash, Go, Released, Finish
  <1>17. CASE UNCHANGED vars
    BY <1>17 DEF vars
  <1> QED
    BY <1>1, <1>2, <1>3, <1>4, <1>5, <1>6, <1>7, <1>8, <1>9, <1>10, <1>11, <1>12, <1>13, <1>14, <1>15, <1>16, <1>17 DEF Next

\* A new profile has a name no other worker has; nobody takes one over.
LEMMA OwnersStep == TypeOK /\ OwnersDiffer /\ [Next]_vars => OwnersDiffer'
  <1> SUFFICES ASSUME TypeOK /\ OwnersDiffer, [Next]_vars PROVE OwnersDiffer'
    OBVIOUS
  <1> USE NoProfileAssumption DEF TypeOK, OwnersDiffer
  <1>1. ASSUME NEW w \in Workers, Launch(w) PROVE OwnersDiffer'
    BY <1>1 DEF Launch, Go
  <1>2. ASSUME NEW w \in Workers, CreateProfile(w) PROVE OwnersDiffer'
    BY <1>2 DEF CreateProfile, Go, Fresh
  <1>3. ASSUME NEW w \in Workers, CreateFails(w) PROVE OwnersDiffer'
    BY <1>3 DEF CreateFails, Go, Finish
  <1>4. ASSUME NEW w \in Workers, Configure(w) PROVE OwnersDiffer'
    BY <1>4 DEF Configure, Go
  <1>5. ASSUME NEW w \in Workers, Logon(w) PROVE OwnersDiffer'
    BY <1>5 DEF Logon, Go
  <1>6. ASSUME NEW w \in Workers, SetUpFails(w) PROVE OwnersDiffer'
    BY <1>6 DEF SetUpFails, Go
  <1>7. ASSUME NEW w \in Workers, Work(w) PROVE OwnersDiffer'
    BY <1>7 DEF Work, Go
  <1>8. ASSUME NEW w \in Workers, Logoff(w) PROVE OwnersDiffer'
    BY <1>8 DEF Logoff, Go, Released
  <1>9. ASSUME NEW w \in Workers, Remove(w) PROVE OwnersDiffer'
    BY <1>9 DEF Remove, Go, Delete, MoveOn, Finish
  <1>10. ASSUME NEW w \in Workers, RemoveFails(w) PROVE OwnersDiffer'
    BY <1>10 DEF RemoveFails, Go
  <1>11. ASSUME NEW w \in Workers, Destroy(w) PROVE OwnersDiffer'
    BY <1>11 DEF Destroy, Go, Delete, MoveOn, Finish
  <1>12. ASSUME NEW w \in Workers, ListProfiles(w) PROVE OwnersDiffer'
    BY <1>12 DEF ListProfiles, Go, Listed
  <1>13. ASSUME NEW w \in Workers, ListFails(w) PROVE OwnersDiffer'
    BY <1>13 DEF ListFails, Go
  <1>14. ASSUME NEW w \in Workers, SweepOne(w) PROVE OwnersDiffer'
    BY <1>14 DEF SweepOne, Go, Delete
  <1>15. ASSUME NEW w \in Workers, SweepEnds(w) PROVE OwnersDiffer'
    BY <1>15 DEF SweepEnds, Go
  <1>16. ASSUME NEW w \in Workers, Crash(w) PROVE OwnersDiffer'
    BY <1>16 DEF Crash, Go, Released, Finish
  <1>17. CASE UNCHANGED vars
    BY <1>17 DEF vars
  <1> QED
    BY <1>1, <1>2, <1>3, <1>4, <1>5, <1>6, <1>7, <1>8, <1>9, <1>10, <1>11, <1>12, <1>13, <1>14, <1>15, <1>16, <1>17 DEF Next

\* A marked profile outlives neither its last session nor the process.
LEMMA MarkedStep == TypeOK /\ OwnersDiffer /\ MarkedInUse /\ [Next]_vars => MarkedInUse'
  <1> SUFFICES ASSUME TypeOK /\ OwnersDiffer /\ MarkedInUse, [Next]_vars PROVE MarkedInUse'
    OBVIOUS
  <1> USE NoProfileAssumption DEF TypeOK, Entry, OwnersDiffer, MarkedInUse
  <1>1. ASSUME NEW w \in Workers, Launch(w) PROVE MarkedInUse'
    BY <1>1 DEF Launch, Go
  <1>2. ASSUME NEW w \in Workers, CreateProfile(w) PROVE MarkedInUse'
    BY <1>2 DEF CreateProfile, Go, Fresh
  <1>3. ASSUME NEW w \in Workers, CreateFails(w) PROVE MarkedInUse'
    BY <1>3 DEF CreateFails, Go, Finish
  <1>4. ASSUME NEW w \in Workers, Configure(w) PROVE MarkedInUse'
    BY <1>4 DEF Configure, Go
  <1>5. ASSUME NEW w \in Workers, Logon(w) PROVE MarkedInUse'
    BY <1>5 DEF Logon, Go
  <1>6. ASSUME NEW w \in Workers, SetUpFails(w) PROVE MarkedInUse'
    BY <1>6 DEF SetUpFails, Go
  <1>7. ASSUME NEW w \in Workers, Work(w) PROVE MarkedInUse'
    BY <1>7 DEF Work, Go
  <1>8. ASSUME NEW w \in Workers, Logoff(w) PROVE MarkedInUse'
    BY <1>8 DEF Logoff, Go, Released
  <1>9. ASSUME NEW w \in Workers, Remove(w) PROVE MarkedInUse'
    BY <1>9 DEF Remove, Go, Delete, MoveOn, Finish
  <1>10. ASSUME NEW w \in Workers, RemoveFails(w) PROVE MarkedInUse'
    BY <1>10 DEF RemoveFails, Go
  <1>11. ASSUME NEW w \in Workers, Destroy(w) PROVE MarkedInUse'
    BY <1>11 DEF Destroy, Go, Delete, MoveOn, Finish
  <1>12. ASSUME NEW w \in Workers, ListProfiles(w) PROVE MarkedInUse'
    BY <1>12 DEF ListProfiles, Go, Listed
  <1>13. ASSUME NEW w \in Workers, ListFails(w) PROVE MarkedInUse'
    BY <1>13 DEF ListFails, Go
  <1>14. ASSUME NEW w \in Workers, SweepOne(w) PROVE MarkedInUse'
    BY <1>14 DEF SweepOne, Go, Delete
  <1>15. ASSUME NEW w \in Workers, SweepEnds(w) PROVE MarkedInUse'
    BY <1>15 DEF SweepEnds, Go
  <1>16. ASSUME NEW w \in Workers, Crash(w) PROVE MarkedInUse'
    BY <1>16 DEF Crash, Go, Released, Finish
  <1>17. CASE UNCHANGED vars
    BY <1>17 DEF vars
  <1> QED
    BY <1>1, <1>2, <1>3, <1>4, <1>5, <1>6, <1>7, <1>8, <1>9, <1>10, <1>11, <1>12, <1>13, <1>14, <1>15, <1>16, <1>17 DEF Next

\* Workers own only profiles they created, and an abandoned one is removed
\* from the history when it is deleted.
LEMMA AbandonedStep == TypeOK /\ OwnersDiffer /\ MarkedInUse /\ AbandonedIsFree /\ [Next]_vars => AbandonedIsFree'
  <1> SUFFICES ASSUME TypeOK /\ OwnersDiffer /\ MarkedInUse /\ AbandonedIsFree, [Next]_vars PROVE AbandonedIsFree'
    OBVIOUS
  <1> USE NoProfileAssumption DEF TypeOK, Entry, OwnersDiffer, MarkedInUse, AbandonedIsFree
  <1>1. ASSUME NEW w \in Workers, Launch(w) PROVE AbandonedIsFree'
    BY <1>1 DEF Launch, Go
  <1>2. ASSUME NEW w \in Workers, CreateProfile(w) PROVE AbandonedIsFree'
    BY <1>2 DEF CreateProfile, Go, Fresh
  <1>3. ASSUME NEW w \in Workers, CreateFails(w) PROVE AbandonedIsFree'
    BY <1>3 DEF CreateFails, Go, Finish
  <1>4. ASSUME NEW w \in Workers, Configure(w) PROVE AbandonedIsFree'
    BY <1>4 DEF Configure, Go
  <1>5. ASSUME NEW w \in Workers, Logon(w) PROVE AbandonedIsFree'
    BY <1>5 DEF Logon, Go
  <1>6. ASSUME NEW w \in Workers, SetUpFails(w) PROVE AbandonedIsFree'
    BY <1>6 DEF SetUpFails, Go
  <1>7. ASSUME NEW w \in Workers, Work(w) PROVE AbandonedIsFree'
    BY <1>7 DEF Work, Go
  <1>8. ASSUME NEW w \in Workers, Logoff(w) PROVE AbandonedIsFree'
    BY <1>8 DEF Logoff, Go, Released
  <1>9. ASSUME NEW w \in Workers, Remove(w) PROVE AbandonedIsFree'
    BY <1>9 DEF Remove, Go, Delete, MoveOn, Finish
  <1>10. ASSUME NEW w \in Workers, RemoveFails(w) PROVE AbandonedIsFree'
    BY <1>10 DEF RemoveFails, Go
  <1>11. ASSUME NEW w \in Workers, Destroy(w) PROVE AbandonedIsFree'
    BY <1>11 DEF Destroy, Go, Delete, MoveOn, Finish
  <1>12. ASSUME NEW w \in Workers, ListProfiles(w) PROVE AbandonedIsFree'
    BY <1>12 DEF ListProfiles, Go, Listed
  <1>13. ASSUME NEW w \in Workers, ListFails(w) PROVE AbandonedIsFree'
    BY <1>13 DEF ListFails, Go
  <1>14. ASSUME NEW w \in Workers, SweepOne(w) PROVE AbandonedIsFree'
    BY <1>14 DEF SweepOne, Go, Delete
  <1>15. ASSUME NEW w \in Workers, SweepEnds(w) PROVE AbandonedIsFree'
    BY <1>15 DEF SweepEnds, Go
  <1>16. ASSUME NEW w \in Workers, Crash(w) PROVE AbandonedIsFree'
    BY <1>16 DEF Crash, Go, Released, Finish
  <1>17. CASE UNCHANGED vars
    BY <1>17 DEF vars
  <1> QED
    BY <1>1, <1>2, <1>3, <1>4, <1>5, <1>6, <1>7, <1>8, <1>9, <1>10, <1>11, <1>12, <1>13, <1>14, <1>15, <1>16, <1>17 DEF Next

\* What is due stays nobody's, and the list of the sweep contains it: it is
\* not marked, for nobody is logged on to it.
LEMMA DueStep == TypeOK /\ AbandonedIsFree /\ MarkedInUse /\ DueIsKnown /\ [Next]_vars => DueIsKnown'
  <1> SUFFICES ASSUME TypeOK /\ AbandonedIsFree /\ MarkedInUse /\ DueIsKnown, [Next]_vars PROVE DueIsKnown'
    OBVIOUS
  <1> USE NoProfileAssumption DEF TypeOK, Entry, Place, AbandonedIsFree, MarkedInUse, DueIsKnown
  <1>1. ASSUME NEW w \in Workers, Launch(w) PROVE DueIsKnown'
    BY <1>1 DEF Launch, Go
  <1>2. ASSUME NEW w \in Workers, CreateProfile(w) PROVE DueIsKnown'
    BY <1>2 DEF CreateProfile, Go, Fresh
  <1>3. ASSUME NEW w \in Workers, CreateFails(w) PROVE DueIsKnown'
    BY <1>3 DEF CreateFails, Go, Finish
  <1>4. ASSUME NEW w \in Workers, Configure(w) PROVE DueIsKnown'
    BY <1>4 DEF Configure, Go
  <1>5. ASSUME NEW w \in Workers, Logon(w) PROVE DueIsKnown'
    BY <1>5 DEF Logon, Go
  <1>6. ASSUME NEW w \in Workers, SetUpFails(w) PROVE DueIsKnown'
    BY <1>6 DEF SetUpFails, Go
  <1>7. ASSUME NEW w \in Workers, Work(w) PROVE DueIsKnown'
    BY <1>7 DEF Work, Go
  <1>8. ASSUME NEW w \in Workers, Logoff(w) PROVE DueIsKnown'
    BY <1>8 DEF Logoff, Go, Released
  <1>9. ASSUME NEW w \in Workers, Remove(w) PROVE DueIsKnown'
    BY <1>9 DEF Remove, Go, Delete, MoveOn, Finish
  <1>10. ASSUME NEW w \in Workers, RemoveFails(w) PROVE DueIsKnown'
    BY <1>10 DEF RemoveFails, Go
  <1>11. ASSUME NEW w \in Workers, Destroy(w) PROVE DueIsKnown'
    BY <1>11 DEF Destroy, Go, Delete, MoveOn, Finish
  <1>12. ASSUME NEW w \in Workers, ListProfiles(w) PROVE DueIsKnown'
    BY <1>12 DEF ListProfiles, Go, Listed
  <1>13. ASSUME NEW w \in Workers, ListFails(w) PROVE DueIsKnown'
    BY <1>13 DEF ListFails, Go
  <1>14. ASSUME NEW w \in Workers, SweepOne(w) PROVE DueIsKnown'
    BY <1>14 DEF SweepOne, Go, Delete
  <1>15. ASSUME NEW w \in Workers, SweepEnds(w) PROVE DueIsKnown'
    BY <1>15 DEF SweepEnds, Go
  <1>16. ASSUME NEW w \in Workers, Crash(w) PROVE DueIsKnown'
    BY <1>16 DEF Crash, Go, Released, Finish
  <1>17. CASE UNCHANGED vars
    BY <1>17 DEF vars
  <1> QED
    BY <1>1, <1>2, <1>3, <1>4, <1>5, <1>6, <1>7, <1>8, <1>9, <1>10, <1>11, <1>12, <1>13, <1>14, <1>15, <1>16, <1>17 DEF Next

\* The sweep comes after the calibration.
LEMMA StageStep == TypeOK /\ SweepStage /\ [Next]_vars => SweepStage'
  <1> SUFFICES ASSUME TypeOK /\ SweepStage, [Next]_vars PROVE SweepStage'
    OBVIOUS
  <1> USE NoProfileAssumption DEF TypeOK, SweepStage
  <1>1. ASSUME NEW w \in Workers, Launch(w) PROVE SweepStage'
    BY <1>1 DEF Launch, Go
  <1>2. ASSUME NEW w \in Workers, CreateProfile(w) PROVE SweepStage'
    BY <1>2 DEF CreateProfile, Go, Fresh
  <1>3. ASSUME NEW w \in Workers, CreateFails(w) PROVE SweepStage'
    BY <1>3 DEF CreateFails, Go, Finish
  <1>4. ASSUME NEW w \in Workers, Configure(w) PROVE SweepStage'
    BY <1>4 DEF Configure, Go
  <1>5. ASSUME NEW w \in Workers, Logon(w) PROVE SweepStage'
    BY <1>5 DEF Logon, Go
  <1>6. ASSUME NEW w \in Workers, SetUpFails(w) PROVE SweepStage'
    BY <1>6 DEF SetUpFails, Go
  <1>7. ASSUME NEW w \in Workers, Work(w) PROVE SweepStage'
    BY <1>7 DEF Work, Go
  <1>8. ASSUME NEW w \in Workers, Logoff(w) PROVE SweepStage'
    BY <1>8 DEF Logoff, Go, Released
  <1>9. ASSUME NEW w \in Workers, Remove(w) PROVE SweepStage'
    BY <1>9 DEF Remove, Go, Delete, MoveOn, Finish
  <1>10. ASSUME NEW w \in Workers, RemoveFails(w) PROVE SweepStage'
    BY <1>10 DEF RemoveFails, Go
  <1>11. ASSUME NEW w \in Workers, Destroy(w) PROVE SweepStage'
    BY <1>11 DEF Destroy, Go, Delete, MoveOn, Finish
  <1>12. ASSUME NEW w \in Workers, ListProfiles(w) PROVE SweepStage'
    BY <1>12 DEF ListProfiles, Go, Listed
  <1>13. ASSUME NEW w \in Workers, ListFails(w) PROVE SweepStage'
    BY <1>13 DEF ListFails, Go
  <1>14. ASSUME NEW w \in Workers, SweepOne(w) PROVE SweepStage'
    BY <1>14 DEF SweepOne, Go, Delete
  <1>15. ASSUME NEW w \in Workers, SweepEnds(w) PROVE SweepStage'
    BY <1>15 DEF SweepEnds, Go
  <1>16. ASSUME NEW w \in Workers, Crash(w) PROVE SweepStage'
    BY <1>16 DEF Crash, Go, Released, Finish
  <1>17. CASE UNCHANGED vars
    BY <1>17 DEF vars
  <1> QED
    BY <1>1, <1>2, <1>3, <1>4, <1>5, <1>6, <1>7, <1>8, <1>9, <1>10, <1>11, <1>12, <1>13, <1>14, <1>15, <1>16, <1>17 DEF Next

\* A worker gives up its profile only when that is gone or abandoned.
LEMMA LeftoversStep == TypeOK /\ OwnersDiffer /\ MarkedInUse /\ LeftoversAreAbandoned /\ [Next]_vars => LeftoversAreAbandoned'
  <1> SUFFICES ASSUME TypeOK /\ OwnersDiffer /\ MarkedInUse /\ LeftoversAreAbandoned, [Next]_vars PROVE LeftoversAreAbandoned'
    OBVIOUS
  <1> USE NoProfileAssumption DEF TypeOK, Entry, OwnersDiffer, MarkedInUse, LeftoversAreAbandoned
  <1>1. ASSUME NEW w \in Workers, Launch(w) PROVE LeftoversAreAbandoned'
    BY <1>1 DEF Launch, Go
  <1>2. ASSUME NEW w \in Workers, CreateProfile(w) PROVE LeftoversAreAbandoned'
    BY <1>2 DEF CreateProfile, Go, Fresh
  <1>3. ASSUME NEW w \in Workers, CreateFails(w) PROVE LeftoversAreAbandoned'
    BY <1>3 DEF CreateFails, Go, Finish
  <1>4. ASSUME NEW w \in Workers, Configure(w) PROVE LeftoversAreAbandoned'
    BY <1>4 DEF Configure, Go
  <1>5. ASSUME NEW w \in Workers, Logon(w) PROVE LeftoversAreAbandoned'
    BY <1>5 DEF Logon, Go
  <1>6. ASSUME NEW w \in Workers, SetUpFails(w) PROVE LeftoversAreAbandoned'
    BY <1>6 DEF SetUpFails, Go
  <1>7. ASSUME NEW w \in Workers, Work(w) PROVE LeftoversAreAbandoned'
    BY <1>7 DEF Work, Go
  <1>8. ASSUME NEW w \in Workers, Logoff(w) PROVE LeftoversAreAbandoned'
    BY <1>8 DEF Logoff, Go, Released
  <1>9. ASSUME NEW w \in Workers, Remove(w) PROVE LeftoversAreAbandoned'
    BY <1>9 DEF Remove, Go, Delete, MoveOn, Finish
  <1>10. ASSUME NEW w \in Workers, RemoveFails(w) PROVE LeftoversAreAbandoned'
    BY <1>10 DEF RemoveFails, Go
  <1>11. ASSUME NEW w \in Workers, Destroy(w) PROVE LeftoversAreAbandoned'
    BY <1>11 DEF Destroy, Go, Delete, MoveOn, Finish
  <1>12. ASSUME NEW w \in Workers, ListProfiles(w) PROVE LeftoversAreAbandoned'
    BY <1>12 DEF ListProfiles, Go, Listed
  <1>13. ASSUME NEW w \in Workers, ListFails(w) PROVE LeftoversAreAbandoned'
    BY <1>13 DEF ListFails, Go
  <1>14. ASSUME NEW w \in Workers, SweepOne(w) PROVE LeftoversAreAbandoned'
    BY <1>14 DEF SweepOne, Go, Delete
  <1>15. ASSUME NEW w \in Workers, SweepEnds(w) PROVE LeftoversAreAbandoned'
    BY <1>15 DEF SweepEnds, Go
  <1>16. ASSUME NEW w \in Workers, Crash(w) PROVE LeftoversAreAbandoned'
    BY <1>16 DEF Crash, Go, Released, Finish
  <1>17. CASE UNCHANGED vars
    BY <1>17 DEF vars
  <1> QED
    BY <1>1, <1>2, <1>3, <1>4, <1>5, <1>6, <1>7, <1>8, <1>9, <1>10, <1>11, <1>12, <1>13, <1>14, <1>15, <1>16, <1>17 DEF Next

\* The sweep ends when nothing is left on its list.
LEMMA SweptStep == TypeOK /\ SweepStage /\ DueIsKnown /\ SweptBeforeConverting /\ [Next]_vars => SweptBeforeConverting'
  <1> SUFFICES ASSUME TypeOK /\ SweepStage /\ DueIsKnown /\ SweptBeforeConverting, [Next]_vars PROVE SweptBeforeConverting'
    OBVIOUS
  <1> USE NoProfileAssumption DEF TypeOK, Entry, Place, Stage, SweepStage, DueIsKnown, SweptBeforeConverting
  <1>1. ASSUME NEW w \in Workers, Launch(w) PROVE SweptBeforeConverting'
    BY <1>1 DEF Launch, Go
  <1>2. ASSUME NEW w \in Workers, CreateProfile(w) PROVE SweptBeforeConverting'
    BY <1>2 DEF CreateProfile, Go, Fresh
  <1>3. ASSUME NEW w \in Workers, CreateFails(w) PROVE SweptBeforeConverting'
    BY <1>3 DEF CreateFails, Go, Finish
  <1>4. ASSUME NEW w \in Workers, Configure(w) PROVE SweptBeforeConverting'
    BY <1>4 DEF Configure, Go
  <1>5. ASSUME NEW w \in Workers, Logon(w) PROVE SweptBeforeConverting'
    BY <1>5 DEF Logon, Go
  <1>6. ASSUME NEW w \in Workers, SetUpFails(w) PROVE SweptBeforeConverting'
    BY <1>6 DEF SetUpFails, Go
  <1>7. ASSUME NEW w \in Workers, Work(w) PROVE SweptBeforeConverting'
    BY <1>7 DEF Work, Go
  <1>8. ASSUME NEW w \in Workers, Logoff(w) PROVE SweptBeforeConverting'
    BY <1>8 DEF Logoff, Go, Released
  <1>9. ASSUME NEW w \in Workers, Remove(w) PROVE SweptBeforeConverting'
    BY <1>9 DEF Remove, Go, Delete, MoveOn, Finish
  <1>10. ASSUME NEW w \in Workers, RemoveFails(w) PROVE SweptBeforeConverting'
    BY <1>10 DEF RemoveFails, Go
  <1>11. ASSUME NEW w \in Workers, Destroy(w) PROVE SweptBeforeConverting'
    BY <1>11 DEF Destroy, Go, Delete, MoveOn, Finish
  <1>12. ASSUME NEW w \in Workers, ListProfiles(w) PROVE SweptBeforeConverting'
    BY <1>12 DEF ListProfiles, Go, Listed
  <1>13. ASSUME NEW w \in Workers, ListFails(w) PROVE SweptBeforeConverting'
    BY <1>13 DEF ListFails, Go
  <1>14. ASSUME NEW w \in Workers, SweepOne(w) PROVE SweptBeforeConverting'
    BY <1>14 DEF SweepOne, Go, Delete
  <1>15. ASSUME NEW w \in Workers, SweepEnds(w) PROVE SweptBeforeConverting'
    BY <1>15 DEF SweepEnds, Go
  <1>16. ASSUME NEW w \in Workers, Crash(w) PROVE SweptBeforeConverting'
    BY <1>16 DEF Crash, Go, Released, Finish
  <1>17. CASE UNCHANGED vars
    BY <1>17 DEF vars
  <1> QED
    BY <1>1, <1>2, <1>3, <1>4, <1>5, <1>6, <1>7, <1>8, <1>9, <1>10, <1>11, <1>12, <1>13, <1>14, <1>15, <1>16, <1>17 DEF Next

\* The inductive invariant.
LEMMA Invariance == Spec => []IInv
  <1>1. IInv /\ [Next]_vars => IInv'
    BY TypeStep, OwnersStep, MarkedStep, AbandonedStep, DueStep, StageStep,
       LeftoversStep, SweptStep DEF IInv
  <1> QED
    BY InitHolds, <1>1, PTL DEF Spec

\* Every variable keeps its type; a worker has a profile exactly between its
\* creation and its removal and a session exactly between logon and logoff.
THEOREM TypeCorrect == Spec => []TypeOK
  <1>1. IInv => TypeOK
    BY DEF IInv
  <1> QED
    BY Invariance, <1>1, PTL

\* A profile that exists belongs to a running worker, or its worker died or was
\* refused the deletion twice.
THEOREM NothingLeftByAccident == Spec => []LeftoversAreAbandoned
  <1>1. IInv => LeftoversAreAbandoned
    BY DEF IInv
  <1> QED
    BY Invariance, <1>1, PTL

\* What was left behind before a worker was launched is gone when it starts to
\* convert, unless MAPI refused to list or delete it.
THEOREM SweepComplete == Spec => []SweptBeforeConverting
  <1>1. IInv => SweptBeforeConverting
    BY DEF IInv
  <1> QED
    BY Invariance, <1>1, PTL
=============================================================================
