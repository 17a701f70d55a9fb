-------------------------- MODULE MCAccountsProofs --------------------------
(***************************************************************************)
(* Theorems about AccountLifecycle, for every set of logins, number of     *)
(* candidates, jobs and failures, with and without the supervisor, and     *)
(* about the behaviours of MCAccounts in which it moves.                   *)
(***************************************************************************)
EXTENDS MCAccounts, Sequences, TLAPS

\* The milestones are statuses; only the last one is "connected".
LEMMA Milestones ==
  /\ Len(Account!Milestone) = 9
  /\ Account!Milestone[1] = "starting_native_file_bridge"
  /\ Account!Milestone[6] = "importing_history"
  /\ \A n \in 1..9 : Account!Milestone[n] \in Account!Status /\ (Account!Milestone[n] = "connected" <=> n = 9)
  /\ "connected" \notin Account!Failed
<1>1. /\ Len(Account!Milestone) = 9
      /\ Account!Milestone[1] = "starting_native_file_bridge"
      /\ Account!Milestone[6] = "importing_history"
  BY DEF Account!Milestone
<1>2. \A n \in 1..8 : Account!Milestone[n] \in Account!Status
  BY DEF Account!Status, Account!Failed
<1>3. Account!Milestone[9] = "connected"
  BY DEF Account!Milestone
<1>4. \A n \in 1..8 : Account!Milestone[n] # "connected"
  BY DEF Account!Milestone
<1>5. \A n \in 1..9 : n \in 1..8 \/ n = 9
  OBVIOUS
<1>6. "connected" \in Account!Status
  BY DEF Account!Status
<1>7. "connected" \notin Account!Failed
  BY <1>4 DEF Account!Failed
<1>. QED  BY <1>1, <1>2, <1>3, <1>4, <1>5, <1>6, <1>7


\* What is not touched keeps its type.
LEMMA TypeFrame ==
  ASSUME Account!TypeOK
  PROVE  /\ UNCHANGED Account!disk => Account!InstanceType'
         /\ UNCHANGED <<pc, kind, error, ended>> => Account!HandlerType'
         /\ UNCHANGED try => Account!TryType'
         /\ UNCHANGED <<registry, activated, lock, sup>> => Account!SharedType'
<1>1. UNCHANGED Account!disk => Account!InstanceType'
  BY DEF Account!TypeOK, Account!InstanceType, Account!disk
<1>2. UNCHANGED <<pc, kind, error, ended>> => Account!HandlerType'
  BY DEF Account!TypeOK, Account!HandlerType
<1>3. UNCHANGED try => Account!TryType'
  BY DEF Account!TypeOK, Account!TryType
<1>4. UNCHANGED <<registry, activated, lock, sup>> => Account!SharedType'
  BY DEF Account!TypeOK, Account!SharedType
<1>. QED  BY <1>1, <1>2, <1>3, <1>4

\* What is being tried is planned anew, counted down or forgotten.
LEMMA Tries ==
  ASSUME Account!LifecycleAssumption, Account!TryType
  PROVE  /\ try' = Account!NoTry => Account!TryType'
         /\ \A p \in {"verified", "candidates", "wizard"}, n \in 0..MaxCandidates :
              Account!Plan(p, n) => Account!TryType'
         /\ try.left > 0 /\ try' = [try EXCEPT !.left = try.left - 1] => Account!TryType'
         /\ \A l \in Logins, b, q \in BOOLEAN :
              try' = [Account!NoTry EXCEPT !.login = l, !.labelled = b, !.protected = q] => Account!TryType'
<1>. DEFINE T == [login : Logins \cup {0}, labelled : BOOLEAN, left : 0..MaxCandidates,
                  plan : {"none", "verified", "candidates", "wizard"}, protected : BOOLEAN]
<1>1. Account!NoTry \in T
  BY DEF Account!LifecycleAssumption, Account!NoTry
<1>2. ASSUME NEW p \in {"verified", "candidates", "wizard"}, NEW n \in 0..MaxCandidates,
             Account!Plan(p, n)
      PROVE  Account!TryType'
  BY <1>2 DEF Account!TryType, Account!Plan
<1>3. ASSUME try.left > 0, try' = [try EXCEPT !.left = try.left - 1]  PROVE Account!TryType'
  BY <1>3, Account!LifecycleAssumption DEF Account!TryType, Account!LifecycleAssumption
<1>4. ASSUME NEW l \in Logins, NEW b \in BOOLEAN, NEW q \in BOOLEAN,
             try' = [Account!NoTry EXCEPT !.login = l, !.labelled = b, !.protected = q]
      PROVE  Account!TryType'
  BY <1>1, <1>4 DEF Account!TryType
<1>5. try' = Account!NoTry => Account!TryType'
  BY <1>1 DEF Account!TryType
<1>. QED  BY <1>2, <1>3, <1>4, <1>5

\* The variables keep their types.
LEMMA TypeStep ==
  ASSUME Account!TypeOK, Account!PlaceInv, [Account!Next]_Account!vars
  PROVE  Account!TypeOK'
<1>1. ASSUME NEW l \in Logins, NEW b \in {FALSE, Labelled}, Account!ClaimProvision(l, b)
      PROVE  Account!TypeOK'
  <2>1. Account!InstanceType'
    BY <1>1 DEF Account!ClaimProvision, Account!TypeOK, Account!InstanceType,
       Account!Status, Account!Failed, Account!NoCreds
  <2>2. Account!HandlerType'
    BY <1>1 DEF Account!ClaimProvision, Account!TypeOK, Account!HandlerType,
       Account!InProvision
  <2>3. Account!TryType'
    <3>1. b \in BOOLEAN /\ Account!Protected \in BOOLEAN
      BY Account!LifecycleAssumption DEF Account!LifecycleAssumption, Account!Protected
    <3>2. try' = [Account!NoTry EXCEPT !.login = l, !.labelled = b, !.protected = Account!Protected]
      BY <1>1 DEF Account!ClaimProvision
    <3>. QED  BY <3>1, <3>2, Account!LifecycleAssumption, Tries DEF Account!TypeOK
  <2>4. jobs' \in 0..MaxJobs /\ failures' \in 0..MaxFailures
    BY <1>1, Account!LifecycleAssumption DEF Account!ClaimProvision, Account!TypeOK,
       Account!LifecycleAssumption
  <2>. QED  BY <1>1, <2>1, <2>2, <2>3, <2>4, TypeFrame DEF Account!ClaimProvision,
     Account!TypeOK
<1>2. ASSUME NEW k \in {"historical_sync", "live_sync", "deprovision"}, Account!Claim(k)
      PROVE  Account!TypeOK'
  <2>1. Account!HandlerType'
    BY <1>2 DEF Account!Claim, Account!TypeOK, Account!HandlerType, Account!InProvision,
       Account!disk
  <2>2. jobs' \in 0..MaxJobs /\ failures' \in 0..MaxFailures
    BY <1>2, Account!LifecycleAssumption DEF Account!Claim, Account!TypeOK,
       Account!LifecycleAssumption, Account!disk
  <2>. QED  BY <1>2, <2>1, <2>2, TypeFrame DEF Account!Claim, Account!TypeOK, Account!disk
<1>3. CASE Account!Resolve
  <2>1. Account!HandlerType'
    BY <1>3 DEF Account!Resolve, Account!TypeOK, Account!HandlerType,
       Account!InProvision, Account!Plan, Account!disk, Account!bounds
  <2>2. Account!TryType'
    <3>1. \E p \in {"verified", "candidates", "wizard"}, n \in 0..MaxCandidates : Account!Plan(p, n)
      BY <1>3, Account!LifecycleAssumption DEF Account!Resolve,
         Account!LifecycleAssumption
    <3>. QED  BY <3>1, Account!LifecycleAssumption, Tries DEF Account!TypeOK
  <2>. QED  BY <1>3, <2>1, <2>2, TypeFrame DEF Account!Resolve, Account!TypeOK,
     Account!Plan, Account!disk, Account!bounds
<1>4. CASE Account!Census
  <2>1. Account!InstanceType'
    BY <1>4 DEF Account!Census, Account!TypeOK, Account!InstanceType, Account!Status,
       Account!Failed, Account!bounds
  <2>2. Account!HandlerType'
    BY <1>4 DEF Account!Census, Account!TypeOK, Account!HandlerType,
       Account!InProvision, Account!Goto, Account!bounds
  <2>. QED  BY <1>4, <2>1, <2>2, TypeFrame DEF Account!Census, Account!TypeOK,
     Account!Goto, Account!bounds
<1>5. CASE Account!Wizard
  <2>1. Account!InstanceType'
    BY <1>5 DEF Account!Wizard, Account!TypeOK, Account!InstanceType, Account!Status,
       Account!Failed, Account!bounds
  <2>2. Account!HandlerType'
    BY <1>5 DEF Account!Wizard, Account!TypeOK, Account!HandlerType,
       Account!InProvision, Account!Goto, Account!Plan, Account!bounds
  <2>3. Account!TryType'
    <3>1. CASE try.plan = "wizard"
      BY <3>1, <1>5 DEF Account!Wizard, Account!Goto, Account!TypeOK, Account!TryType
    <3>2. CASE try.plan # "wizard"
      <4>1. Account!Plan("wizard", 0) /\ 0 \in 0..MaxCandidates
        BY <3>2, <1>5, Account!LifecycleAssumption DEF Account!Wizard,
           Account!LifecycleAssumption
      <4>. QED  BY <4>1, Account!LifecycleAssumption, Tries DEF Account!TypeOK
    <3>. QED  BY <3>1, <3>2
  <2>. QED  BY <1>5, <2>1, <2>2, <2>3, TypeFrame DEF Account!Wizard, Account!TypeOK,
     Account!Goto, Account!Plan, Account!bounds
<1>6. CASE Account!WriteIdentity
  <2>1. Account!InstanceType'
    <3>1. try.login \in Logins \cup {0}
      BY DEF Account!TypeOK, Account!TryType
    <3>2. creds' \in [login : Logins \cup {0}, whole : BOOLEAN]
      BY <3>1, <1>6 DEF Account!WriteIdentity, Account!TypeOK, Account!InstanceType
    <3>. QED  BY <3>2, <1>6 DEF Account!WriteIdentity, Account!TypeOK,
       Account!InstanceType
  <2>2. Account!HandlerType'
    BY <1>6 DEF Account!WriteIdentity, Account!TypeOK, Account!HandlerType,
       Account!InProvision, Account!Goto, Account!bounds
  <2>. QED  BY <1>6, <2>1, <2>2, TypeFrame DEF Account!WriteIdentity, Account!TypeOK,
     Account!Goto, Account!bounds
<1>7. CASE Account!WriteToken
  <2>1. Account!InstanceType'
    BY <1>7 DEF Account!WriteToken, Account!TypeOK, Account!InstanceType,
       Account!Status, Account!Failed, Account!bounds
  <2>2. Account!HandlerType'
    BY <1>7 DEF Account!WriteToken, Account!TypeOK, Account!HandlerType,
       Account!InProvision, Account!Goto, Account!bounds
  <2>. QED  BY <1>7, <2>1, <2>2, TypeFrame DEF Account!WriteToken, Account!TypeOK,
     Account!Goto, Account!bounds
<1>8. CASE Account!Instance
  <2>1. Account!InstanceType'
    BY <1>8 DEF Account!Instance, Account!TypeOK, Account!InstanceType, Account!Status,
       Account!Failed, Account!bounds
  <2>2. Account!HandlerType'
    BY <1>8 DEF Account!Instance, Account!TypeOK, Account!HandlerType,
       Account!InProvision, Account!Goto, Account!bounds
  <2>. QED  BY <1>8, <2>1, <2>2, TypeFrame DEF Account!Instance, Account!TypeOK,
     Account!Goto, Account!bounds
<1>9. CASE Account!Provisioned
  <2>1. Account!InstanceType'
    BY <1>9 DEF Account!Provisioned, Account!TypeOK, Account!InstanceType,
       Account!Status, Account!Failed, Account!bounds
  <2>2. Account!HandlerType'
    BY <1>9 DEF Account!Provisioned, Account!TypeOK, Account!HandlerType,
       Account!InProvision, Account!Goto, Account!bounds
  <2>. QED  BY <1>9, <2>1, <2>2, TypeFrame DEF Account!Provisioned, Account!TypeOK,
     Account!Goto, Account!bounds
<1>10. CASE Account!Attempt
  <2>1. Account!InstanceType'
    <3>1. status' \in Account!Status
      BY <1>10, Milestones DEF Account!Attempt
    <3>. QED  BY <3>1, <1>10 DEF Account!Attempt, Account!TypeOK, Account!InstanceType
  <2>2. Account!HandlerType'
    BY <1>10 DEF Account!Attempt, Account!TypeOK, Account!HandlerType,
       Account!InProvision, Account!Goto, Account!bounds
  <2>3. Account!SharedType'
    BY <1>10 DEF Account!Attempt, Account!TypeOK, Account!SharedType
  <2>. QED  BY <1>10, <2>1, <2>2, <2>3, TypeFrame DEF Account!Attempt, Account!TypeOK,
     Account!Goto, Account!bounds
<1>11. CASE Account!Launch
  <2>1. Account!InstanceType'
    BY <1>11 DEF Account!Launch, Account!TypeOK, Account!InstanceType, Account!Status,
       Account!Failed, Account!bounds
  <2>2. Account!HandlerType'
    BY <1>11 DEF Account!Launch, Account!TypeOK, Account!HandlerType,
       Account!InProvision, Account!Goto, Account!bounds
  <2>. QED  BY <1>11, <2>1, <2>2, TypeFrame DEF Account!Launch, Account!TypeOK,
     Account!Goto, Account!bounds
<1>12. ASSUME NEW n \in 2..Len(Account!Milestone), Account!Reach(n) PROVE Account!TypeOK'
  <2>1. Account!InstanceType'
    BY <1>12, Milestones DEF Account!Reach, Account!TypeOK, Account!InstanceType,
       Account!Status, Account!Failed, Account!bounds
  <2>2. Account!HandlerType'
    BY <1>12 DEF Account!Reach, Account!TypeOK, Account!HandlerType,
       Account!InProvision, Account!bounds
  <2>3. Account!SharedType'
    BY <1>12 DEF Account!Reach, Account!TypeOK, Account!SharedType
  <2>. QED  BY <1>12, <2>1, <2>2, <2>3, TypeFrame DEF Account!Reach, Account!TypeOK,
     Account!bounds
<1>13. CASE Account!Seal
  <2>1. Account!InstanceType'
    BY <1>13 DEF Account!Seal, Account!TypeOK, Account!InstanceType, Account!Status,
       Account!Failed, Account!bounds
  <2>2. Account!HandlerType'
    BY <1>13 DEF Account!Seal, Account!TypeOK, Account!HandlerType, Account!InProvision,
       Account!Goto, Account!bounds
  <2>3. Account!SharedType'
    BY <1>13 DEF Account!Seal, Account!TypeOK, Account!SharedType
  <2>. QED  BY <1>13, <2>1, <2>2, <2>3, TypeFrame DEF Account!Seal, Account!TypeOK,
     Account!Goto, Account!bounds
<1>14. CASE Account!Authenticated
  <2>1. Account!InstanceType'
    BY <1>14 DEF Account!Authenticated, Account!TypeOK, Account!InstanceType,
       Account!Status, Account!Failed, Account!bounds
  <2>2. Account!HandlerType'
    BY <1>14 DEF Account!Authenticated, Account!TypeOK, Account!HandlerType,
       Account!InProvision, Account!Goto, Account!bounds
  <2>. QED  BY <1>14, <2>1, <2>2, TypeFrame DEF Account!Authenticated, Account!TypeOK,
     Account!Goto, Account!bounds
<1>15. CASE Account!Promote
  <2>1. Account!HandlerType'
    BY <1>15 DEF Account!Promote, Account!TypeOK, Account!HandlerType,
       Account!InProvision, Account!Goto, Account!disk, Account!bounds
  <2>2. Account!SharedType'
    BY <1>15 DEF Account!Promote, Account!TypeOK, Account!SharedType
  <2>. QED  BY <1>15, <2>1, <2>2, TypeFrame DEF Account!Promote, Account!TypeOK,
     Account!Goto, Account!disk, Account!bounds
<1>16. CASE Account!Connected
  <2>1. Account!InstanceType'
    BY <1>16 DEF Account!Connected, Account!TypeOK, Account!InstanceType,
       Account!Status, Account!Failed, Account!bounds
  <2>2. Account!HandlerType'
    BY <1>16 DEF Account!Connected, Account!TypeOK, Account!HandlerType,
       Account!InProvision, Account!Finish, Account!bounds
  <2>3. Account!TryType'
    BY <1>16, Account!LifecycleAssumption, Tries DEF Account!Connected, Account!TypeOK,
       Account!Finish, Account!bounds
  <2>4. Account!SharedType'
    BY <1>16 DEF Account!Connected, Account!TypeOK, Account!SharedType
  <2>. QED  BY <1>16, <2>1, <2>2, <2>3, <2>4, TypeFrame DEF Account!Connected,
     Account!TypeOK, Account!Finish, Account!bounds
<1>17. ASSUME NEW e \in {"agent", "endpoint"}, Account!LaunchFails(e) PROVE Account!TypeOK'
  <2>1. Account!InstanceType'
    BY <1>17 DEF Account!LaunchFails, Account!TypeOK, Account!InstanceType,
       Account!Status, Account!Failed
  <2>2. Account!HandlerType'
    BY <1>17 DEF Account!LaunchFails, Account!TypeOK, Account!HandlerType,
       Account!InProvision
  <2>3. jobs' \in 0..MaxJobs /\ failures' \in 0..MaxFailures
    BY <1>17, Account!LifecycleAssumption DEF Account!LaunchFails, Account!TypeOK,
       Account!Count, Account!LifecycleAssumption
  <2>. QED  BY <1>17, <2>1, <2>2, <2>3, TypeFrame DEF Account!LaunchFails, Account!TypeOK
<1>18. CASE Account!PromoteFails
  <2>1. Account!InstanceType'
    BY <1>18 DEF Account!PromoteFails, Account!TypeOK, Account!InstanceType,
       Account!Status, Account!Failed
  <2>2. Account!HandlerType'
    BY <1>18 DEF Account!PromoteFails, Account!TypeOK, Account!HandlerType,
       Account!InProvision
  <2>3. jobs' \in 0..MaxJobs /\ failures' \in 0..MaxFailures
    BY <1>18, Account!LifecycleAssumption DEF Account!PromoteFails, Account!TypeOK,
       Account!Count, Account!LifecycleAssumption
  <2>. QED  BY <1>18, <2>1, <2>2, <2>3, TypeFrame DEF Account!PromoteFails, Account!TypeOK
<1>19. CASE Account!ProvisionRaises
  <2>1. Account!InstanceType'
    BY <1>19 DEF Account!ProvisionRaises, Account!TypeOK, Account!InstanceType,
       Account!Status, Account!Failed
  <2>2. Account!HandlerType'
    BY <1>19 DEF Account!ProvisionRaises, Account!TypeOK, Account!HandlerType,
       Account!InProvision
  <2>3. jobs' \in 0..MaxJobs /\ failures' \in 0..MaxFailures
    BY <1>19, Account!LifecycleAssumption DEF Account!ProvisionRaises, Account!TypeOK,
       Account!Count, Account!LifecycleAssumption
  <2>. QED  BY <1>19, <2>1, <2>2, <2>3, TypeFrame DEF Account!ProvisionRaises,
     Account!TypeOK
<1>20. CASE Account!LeaseUncertain
  <2>1. Account!InstanceType'
    BY <1>20 DEF Account!LeaseUncertain, Account!TypeOK, Account!InstanceType,
       Account!Status, Account!Failed
  <2>2. Account!HandlerType'
    BY <1>20 DEF Account!LeaseUncertain, Account!TypeOK, Account!HandlerType,
       Account!InProvision
  <2>3. jobs' \in 0..MaxJobs /\ failures' \in 0..MaxFailures
    BY <1>20, Account!LifecycleAssumption DEF Account!LeaseUncertain, Account!TypeOK,
       Account!Count, Account!LifecycleAssumption
  <2>. QED  BY <1>20, <2>1, <2>2, <2>3, TypeFrame DEF Account!LeaseUncertain,
     Account!TypeOK
<1>21. CASE Account!NextCandidate
  <2>1. Account!InstanceType'
    BY <1>21 DEF Account!NextCandidate, Account!TypeOK, Account!InstanceType,
       Account!Status, Account!Failed, Account!bounds
  <2>2. Account!HandlerType'
    BY <1>21 DEF Account!NextCandidate, Account!TypeOK, Account!HandlerType,
       Account!InProvision, Account!bounds
  <2>3. Account!TryType'
    <3>1. try.left > 0
      BY <1>21 DEF Account!NextCandidate, Account!PlaceInv, Account!Disproved
    <3>2. try' = [try EXCEPT !.left = try.left - 1]
      BY <1>21 DEF Account!NextCandidate
    <3>. QED  BY <3>1, <3>2, Account!LifecycleAssumption, Tries DEF Account!TypeOK
  <2>4. Account!SharedType'
    BY <1>21 DEF Account!NextCandidate, Account!TypeOK, Account!SharedType
  <2>. QED  BY <1>21, <2>1, <2>2, <2>3, <2>4, TypeFrame DEF Account!NextCandidate,
     Account!TypeOK, Account!bounds
<1>22. CASE Account!NoWizard
  <2>1. Account!InstanceType'
    BY <1>22 DEF Account!NoWizard, Account!TypeOK, Account!InstanceType, Account!Status,
       Account!Failed, Account!bounds
  <2>2. Account!HandlerType'
    BY <1>22 DEF Account!NoWizard, Account!TypeOK, Account!HandlerType,
       Account!InProvision, Account!bounds
  <2>3. Account!SharedType'
    BY <1>22 DEF Account!NoWizard, Account!TypeOK, Account!SharedType
  <2>. QED  BY <1>22, <2>1, <2>2, <2>3, TypeFrame DEF Account!NoWizard, Account!TypeOK,
     Account!bounds
<1>23. CASE Account!HandleFailure
  <2>1. Account!HandlerType'
    BY <1>23 DEF Account!HandleFailure, Account!TypeOK, Account!HandlerType,
       Account!InProvision, Account!Finish, Account!disk, Account!bounds
  <2>2. Account!TryType'
    BY <1>23, Account!LifecycleAssumption, Tries DEF Account!HandleFailure,
       Account!TypeOK, Account!Finish, Account!TryType, Account!disk, Account!bounds
  <2>3. Account!SharedType'
    BY <1>23 DEF Account!HandleFailure, Account!TypeOK, Account!SharedType
  <2>. QED  BY <1>23, <2>1, <2>2, <2>3, TypeFrame DEF Account!HandleFailure,
     Account!TypeOK, Account!Finish, Account!disk, Account!bounds
<1>24. CASE Account!Cleanup
  <2>1. Account!InstanceType'
    BY <1>24 DEF Account!Cleanup, Account!TypeOK, Account!InstanceType, Account!Status,
       Account!Failed, Account!bounds
  <2>2. Account!HandlerType'
    BY <1>24 DEF Account!Cleanup, Account!TypeOK, Account!HandlerType,
       Account!InProvision, Account!Goto, Account!bounds
  <2>. QED  BY <1>24, <2>1, <2>2, TypeFrame DEF Account!Cleanup, Account!TypeOK,
     Account!Goto, Account!bounds
<1>25. CASE Account!CleanupFails
  <2>1. Account!HandlerType'
    BY <1>25 DEF Account!CleanupFails, Account!TypeOK, Account!HandlerType,
       Account!InProvision, Account!Finish, Account!disk
  <2>2. Account!TryType'
    BY <1>25, Account!LifecycleAssumption, Tries DEF Account!CleanupFails,
       Account!TypeOK, Account!Finish, Account!disk
  <2>3. jobs' \in 0..MaxJobs /\ failures' \in 0..MaxFailures
    BY <1>25, Account!LifecycleAssumption DEF Account!CleanupFails, Account!TypeOK,
       Account!Count, Account!LifecycleAssumption, Account!disk
  <2>. QED  BY <1>25, <2>1, <2>2, <2>3, TypeFrame DEF Account!CleanupFails,
     Account!TypeOK, Account!Finish, Account!disk
<1>26. CASE Account!Remove
  <2>1. Account!InstanceType'
    BY <1>26 DEF Account!Remove, Account!TypeOK, Account!InstanceType, Account!Status,
       Account!Failed, Account!bounds
  <2>2. Account!HandlerType'
    BY <1>26 DEF Account!Remove, Account!TypeOK, Account!HandlerType,
       Account!InProvision, Account!Goto, Account!bounds
  <2>. QED  BY <1>26, <2>1, <2>2, TypeFrame DEF Account!Remove, Account!TypeOK,
     Account!Goto, Account!bounds
<1>27. CASE Account!Erase
  <2>1. Account!InstanceType'
    BY <1>27 DEF Account!Erase, Account!TypeOK, Account!InstanceType, Account!Status,
       Account!Failed, Account!NoCreds, Account!bounds
  <2>2. Account!HandlerType'
    BY <1>27 DEF Account!Erase, Account!TypeOK, Account!HandlerType,
       Account!InProvision, Account!Goto, Account!bounds
  <2>. QED  BY <1>27, <2>1, <2>2, TypeFrame DEF Account!Erase, Account!TypeOK,
     Account!Goto, Account!bounds
<1>28. CASE Account!VerifyGone
  <2>1. Account!HandlerType'
    BY <1>28 DEF Account!VerifyGone, Account!TypeOK, Account!HandlerType,
       Account!InProvision, Account!Goto, Account!Finish, Account!disk, Account!bounds
  <2>2. Account!TryType'
    BY <1>28, Account!LifecycleAssumption, Tries DEF Account!VerifyGone, Account!TypeOK,
       Account!Finish, Account!Goto, Account!TryType, Account!disk, Account!bounds
  <2>. QED  BY <1>28, <2>1, <2>2, TypeFrame DEF Account!VerifyGone, Account!TypeOK,
     Account!Goto, Account!Finish, Account!disk, Account!bounds
<1>29. CASE Account!HistoryBegins
  <2>1. Account!InstanceType'
    <3>1. status' \in Account!Status
      BY <1>29, Milestones DEF Account!HistoryBegins
    <3>. QED  BY <3>1, <1>29 DEF Account!HistoryBegins, Account!TypeOK,
       Account!InstanceType
  <2>2. Account!HandlerType'
    BY <1>29 DEF Account!HistoryBegins, Account!TypeOK, Account!HandlerType,
       Account!InProvision, Account!Goto, Account!bounds
  <2>. QED  BY <1>29, <2>1, <2>2, TypeFrame DEF Account!HistoryBegins, Account!TypeOK,
     Account!Goto, Account!bounds
<1>30. CASE Account!HistoryLocks
  <2>1. Account!HandlerType'
    BY <1>30 DEF Account!HistoryLocks, Account!TypeOK, Account!HandlerType,
       Account!InProvision, Account!Goto, Account!disk, Account!bounds
  <2>2. Account!SharedType'
    BY <1>30 DEF Account!HistoryLocks, Account!TypeOK, Account!SharedType
  <2>. QED  BY <1>30, <2>1, <2>2, TypeFrame DEF Account!HistoryLocks, Account!TypeOK,
     Account!Goto, Account!disk, Account!bounds
<1>31. CASE Account!LiveBegins
  <2>1. Account!InstanceType'
    BY <1>31 DEF Account!LiveBegins, Account!TypeOK, Account!InstanceType,
       Account!Status, Account!Failed, Account!bounds
  <2>2. Account!HandlerType'
    BY <1>31 DEF Account!LiveBegins, Account!TypeOK, Account!HandlerType,
       Account!InProvision, Account!Goto, Account!bounds
  <2>. QED  BY <1>31, <2>1, <2>2, TypeFrame DEF Account!LiveBegins, Account!TypeOK,
     Account!Goto, Account!bounds
<1>32. CASE Account!Synced
  <2>1. Account!InstanceType'
    BY <1>32 DEF Account!Synced, Account!TypeOK, Account!InstanceType, Account!Status,
       Account!Failed, Account!bounds
  <2>2. Account!HandlerType'
    BY <1>32 DEF Account!Synced, Account!TypeOK, Account!HandlerType,
       Account!InProvision, Account!Finish, Account!bounds
  <2>3. Account!TryType'
    BY <1>32, Account!LifecycleAssumption, Tries DEF Account!Synced, Account!TypeOK,
       Account!Finish, Account!bounds
  <2>4. Account!SharedType'
    BY <1>32 DEF Account!Synced, Account!TypeOK, Account!SharedType
  <2>. QED  BY <1>32, <2>1, <2>2, <2>3, <2>4, TypeFrame DEF Account!Synced,
     Account!TypeOK, Account!Finish, Account!bounds
<1>33. CASE Account!SyncFails
  <2>1. Account!InstanceType'
    BY <1>33 DEF Account!SyncFails, Account!TypeOK, Account!InstanceType,
       Account!Status, Account!Failed
  <2>2. Account!HandlerType'
    BY <1>33 DEF Account!SyncFails, Account!TypeOK, Account!HandlerType,
       Account!InProvision, Account!Finish
  <2>3. Account!TryType'
    BY <1>33, Account!LifecycleAssumption, Tries DEF Account!SyncFails, Account!TypeOK,
       Account!Finish
  <2>4. Account!SharedType'
    BY <1>33 DEF Account!SyncFails, Account!TypeOK, Account!SharedType
  <2>5. jobs' \in 0..MaxJobs /\ failures' \in 0..MaxFailures
    BY <1>33, Account!LifecycleAssumption DEF Account!SyncFails, Account!TypeOK,
       Account!Count, Account!LifecycleAssumption
  <2>. QED  BY <1>33, <2>1, <2>2, <2>3, <2>4, <2>5, TypeFrame DEF Account!SyncFails,
     Account!TypeOK, Account!Finish
<1>34. CASE Account!NothingToSync
  <2>1. Account!HandlerType'
    BY <1>34 DEF Account!NothingToSync, Account!TypeOK, Account!HandlerType,
       Account!InProvision, Account!Finish, Account!disk, Account!bounds
  <2>2. Account!TryType'
    BY <1>34, Account!LifecycleAssumption, Tries DEF Account!NothingToSync,
       Account!TypeOK, Account!Finish, Account!disk, Account!bounds
  <2>. QED  BY <1>34, <2>1, <2>2, TypeFrame DEF Account!NothingToSync, Account!TypeOK,
     Account!Finish, Account!disk, Account!bounds
<1>35. CASE Account!DeprovisionBegins
  <2>1. Account!InstanceType'
    BY <1>35 DEF Account!DeprovisionBegins, Account!TypeOK, Account!InstanceType,
       Account!Status, Account!Failed, Account!bounds
  <2>2. Account!HandlerType'
    BY <1>35 DEF Account!DeprovisionBegins, Account!TypeOK, Account!HandlerType,
       Account!InProvision, Account!Goto, Account!bounds
  <2>3. Account!SharedType'
    BY <1>35 DEF Account!DeprovisionBegins, Account!TypeOK, Account!SharedType
  <2>. QED  BY <1>35, <2>1, <2>2, <2>3, TypeFrame DEF Account!DeprovisionBegins,
     Account!TypeOK, Account!Goto, Account!bounds
<1>36. CASE Account!StopTerminal
  <2>1. Account!InstanceType'
    BY <1>36 DEF Account!StopTerminal, Account!TypeOK, Account!InstanceType,
       Account!Status, Account!Failed, Account!bounds
  <2>2. Account!HandlerType'
    BY <1>36 DEF Account!StopTerminal, Account!TypeOK, Account!HandlerType,
       Account!InProvision, Account!Goto, Account!bounds
  <2>. QED  BY <1>36, <2>1, <2>2, TypeFrame DEF Account!StopTerminal, Account!TypeOK,
     Account!Goto, Account!bounds
<1>37. CASE Account!List
  <2>1. Account!SharedType'
    BY <1>37 DEF Account!List, Account!TypeOK, Account!SharedType
  <2>. QED  BY <1>37, <2>1, TypeFrame DEF Account!List, Account!TypeOK, Account!disk,
     Account!handler, Account!bounds
<1>38. CASE Account!PollReads
  <2>1. Account!SharedType'
    BY <1>38 DEF Account!PollReads, Account!TypeOK, Account!SharedType
  <2>. QED  BY <1>38, <2>1, TypeFrame DEF Account!PollReads, Account!TypeOK,
     Account!disk, Account!handler, Account!bounds
<1>39. CASE Account!PollOpens
  <2>1. Account!InstanceType'
    BY <1>39 DEF Account!PollOpens, Account!TypeOK, Account!InstanceType,
       Account!Status, Account!Failed, Account!handler, Account!bounds
  <2>2. Account!SharedType'
    BY <1>39 DEF Account!PollOpens, Account!TypeOK, Account!SharedType
  <2>. QED  BY <1>39, <2>1, <2>2, TypeFrame DEF Account!PollOpens, Account!TypeOK,
     Account!handler, Account!bounds
<1>40. CASE Account!PollEnds
  <2>1. Account!SharedType'
    BY <1>40 DEF Account!PollEnds, Account!TypeOK, Account!SharedType
  <2>. QED  BY <1>40, <2>1, TypeFrame DEF Account!PollEnds, Account!TypeOK,
     Account!disk, Account!handler, Account!bounds
<1>41. CASE Account!TerminalDies
  <2>1. Account!InstanceType'
    BY <1>41 DEF Account!TerminalDies, Account!TypeOK, Account!InstanceType,
       Account!Status, Account!Failed, Account!handler
  <2>2. jobs' \in 0..MaxJobs /\ failures' \in 0..MaxFailures
    BY <1>41, Account!LifecycleAssumption DEF Account!TerminalDies, Account!TypeOK,
       Account!Count, Account!LifecycleAssumption, Account!handler
  <2>. QED  BY <1>41, <2>1, <2>2, TypeFrame DEF Account!TerminalDies, Account!TypeOK,
     Account!handler
<1>42. CASE Account!Crash
  <2>1. Account!InstanceType'
    BY <1>42 DEF Account!Crash, Account!TypeOK, Account!InstanceType, Account!Status,
       Account!Failed
  <2>2. Account!HandlerType'
    BY <1>42 DEF Account!Crash, Account!TypeOK, Account!HandlerType,
       Account!InProvision, Account!Finish
  <2>3. Account!TryType'
    BY <1>42, Account!LifecycleAssumption, Tries DEF Account!Crash, Account!TypeOK,
       Account!Finish
  <2>4. Account!SharedType'
    BY <1>42 DEF Account!Crash, Account!TypeOK, Account!SharedType
  <2>5. jobs' \in 0..MaxJobs /\ failures' \in 0..MaxFailures
    BY <1>42, Account!LifecycleAssumption DEF Account!Crash, Account!TypeOK,
       Account!Count, Account!LifecycleAssumption
  <2>. QED  BY <1>42, <2>1, <2>2, <2>3, <2>4, <2>5, TypeFrame DEF Account!Crash,
     Account!TypeOK, Account!Finish
<1>43. CASE UNCHANGED Account!vars
  BY <1>43, TypeFrame DEF Account!vars, Account!TypeOK, Account!disk, Account!handler,
     Account!bounds
<1>. QED
  BY <1>1, <1>2, <1>3, <1>4, <1>5, <1>6, <1>7, <1>8, <1>9, <1>10, <1>11, <1>12, <1>13,
     <1>14, <1>15, <1>16, <1>17, <1>18, <1>19, <1>20, <1>21, <1>22, <1>23, <1>24, <1>25,
     <1>26, <1>27, <1>28, <1>29, <1>30, <1>31, <1>32, <1>33, <1>34, <1>35, <1>36, <1>37,
     <1>38, <1>39, <1>40, <1>41, <1>42, <1>43 DEF Account!Next, Account!Handler,
     Account!Provision, Account!Discard, Account!Sync, Account!Deprovision,
     Account!Supervisor

\* Every step keeps what holds at the handler's places, and what the supervisor and
\* the restarted agent rely on.
LEMMA PlaceStep ==
  ASSUME Account!IInv, [Account!Next]_Account!vars
  PROVE  Account!PlaceInv' /\ Account!SupervisedIsWhole' /\ Account!TerminalHasHome'
<1>. USE DEF Account!IInv
<1>1. ASSUME NEW l \in Logins, NEW b \in {FALSE, Labelled}, Account!ClaimProvision(l, b)
      PROVE  Account!PlaceInv' /\ Account!SupervisedIsWhole' /\ Account!TerminalHasHome'
  <2>1. status' # "connected"
    BY <1>1, Milestones DEF Account!ClaimProvision, Account!Protected,
       Account!SupervisedIsWhole
  <2>2. pc' \in {"cleanup", "resolve"} /\ UNCHANGED <<root, creds, terminal, sealed>>
    BY <1>1 DEF Account!ClaimProvision
  <2>. QED
    BY <2>1, <2>2 DEF Account!PlaceInv, Account!SupervisedIsWhole,
       Account!TerminalHasHome, Account!Hidden, Account!Started, Account!Settled,
       Account!Stored, Account!Disproved
<1>2. ASSUME NEW k \in {"historical_sync", "live_sync", "deprovision"}, Account!Claim(k)
      PROVE  Account!PlaceInv' /\ Account!SupervisedIsWhole' /\ Account!TerminalHasHome'
  BY <1>2 DEF Account!Claim, Account!PlaceInv, Account!SupervisedIsWhole,
     Account!TerminalHasHome, Account!Hidden, Account!Started, Account!Settled,
     Account!Stored, Account!Disproved, Account!disk
<1>3. CASE Account!Resolve
  <2>1. PICK p \in {"verified", "candidates", "wizard"}, n \in 0..MaxCandidates :
          /\ Account!Plan(p, n) /\ (p = "candidates" => n > 0)
          /\ pc' = IF p = "wizard" THEN "census" ELSE "secrets"
    BY <1>3, Account!LifecycleAssumption DEF Account!Resolve, Account!LifecycleAssumption
  <2>2. try'.plan = p /\ try'.left = n
    BY <2>1 DEF Account!Plan, Account!TypeOK, Account!TryType
  <2>3. pc = "resolve" /\ UNCHANGED Account!disk
    BY <1>3 DEF Account!Resolve
  <2>. QED
    BY <2>1, <2>2, <2>3 DEF Account!PlaceInv, Account!SupervisedIsWhole,
       Account!TerminalHasHome, Account!Hidden, Account!Started, Account!Settled,
       Account!Stored, Account!Disproved, Account!disk
<1>4. CASE Account!Census
  BY <1>4 DEF Account!Census, Account!PlaceInv, Account!SupervisedIsWhole,
     Account!TerminalHasHome, Account!Hidden, Account!Started, Account!Settled,
     Account!Stored, Account!Disproved, Account!Goto, Account!Publishable
<1>5. CASE Account!Wizard
  BY <1>5 DEF Account!Wizard, Account!TypeOK, Account!TryType, Account!PlaceInv,
     Account!SupervisedIsWhole, Account!TerminalHasHome, Account!Hidden,
     Account!Started, Account!Settled, Account!Stored, Account!Disproved, Account!Goto,
     Account!Plan
<1>6. CASE Account!WriteIdentity
  BY <1>6 DEF Account!WriteIdentity, Account!PlaceInv, Account!SupervisedIsWhole,
     Account!TerminalHasHome, Account!Hidden, Account!Started, Account!Settled,
     Account!Stored, Account!Disproved, Account!Goto
<1>7. CASE Account!WriteToken
  BY <1>7 DEF Account!WriteToken, Account!PlaceInv, Account!SupervisedIsWhole,
     Account!TerminalHasHome, Account!Hidden, Account!Started, Account!Settled,
     Account!Stored, Account!Disproved, Account!Goto
<1>8. CASE Account!Instance
  BY <1>8 DEF Account!Instance, Account!PlaceInv, Account!SupervisedIsWhole,
     Account!TerminalHasHome, Account!Hidden, Account!Started, Account!Settled,
     Account!Stored, Account!Disproved, Account!Goto, Account!Publishable
<1>9. CASE Account!Provisioned
  BY <1>9 DEF Account!Provisioned, Account!PlaceInv, Account!SupervisedIsWhole,
     Account!TerminalHasHome, Account!Hidden, Account!Started, Account!Settled,
     Account!Stored, Account!Disproved, Account!Goto
<1>10. CASE Account!Attempt
  BY <1>10, Milestones DEF Account!Attempt, Account!PlaceInv, Account!SupervisedIsWhole,
     Account!TerminalHasHome, Account!Hidden, Account!Started, Account!Settled,
     Account!Stored, Account!Disproved, Account!Goto
<1>11. CASE Account!Launch
  BY <1>11 DEF Account!Launch, Account!PlaceInv, Account!SupervisedIsWhole,
     Account!TerminalHasHome, Account!Hidden, Account!Started, Account!Settled,
     Account!Stored, Account!Disproved, Account!Goto
<1>12. ASSUME NEW n \in 2..Len(Account!Milestone), Account!Reach(n)
       PROVE  Account!PlaceInv' /\ Account!SupervisedIsWhole' /\ Account!TerminalHasHome'
  BY <1>12, Milestones DEF Account!Reach, Account!PlaceInv, Account!SupervisedIsWhole,
     Account!TerminalHasHome, Account!Hidden, Account!Started, Account!Settled,
     Account!Stored, Account!Disproved
<1>13. CASE Account!Seal
  BY <1>13 DEF Account!Seal, Account!PlaceInv, Account!SupervisedIsWhole,
     Account!TerminalHasHome, Account!Hidden, Account!Started, Account!Settled,
     Account!Stored, Account!Disproved, Account!Goto
<1>14. CASE Account!Authenticated
  BY <1>14 DEF Account!Authenticated, Account!PlaceInv, Account!SupervisedIsWhole,
     Account!TerminalHasHome, Account!Hidden, Account!Started, Account!Settled,
     Account!Stored, Account!Disproved, Account!Goto
<1>15. CASE Account!Promote
  BY <1>15 DEF Account!Promote, Account!PlaceInv, Account!SupervisedIsWhole,
     Account!TerminalHasHome, Account!Hidden, Account!Started, Account!Settled,
     Account!Stored, Account!Disproved, Account!Goto, Account!disk
<1>16. CASE Account!Connected
  BY <1>16 DEF Account!Connected, Account!PlaceInv, Account!SupervisedIsWhole,
     Account!TerminalHasHome, Account!Hidden, Account!Started, Account!Settled,
     Account!Stored, Account!Disproved, Account!Finish
<1>17. ASSUME NEW e \in {"agent", "endpoint"}, Account!LaunchFails(e)
       PROVE  Account!PlaceInv' /\ Account!SupervisedIsWhole' /\ Account!TerminalHasHome'
  BY <1>17 DEF Account!LaunchFails, Account!PlaceInv, Account!SupervisedIsWhole,
     Account!TerminalHasHome, Account!Hidden, Account!Started, Account!Settled,
     Account!Stored, Account!Disproved
<1>18. CASE Account!PromoteFails
  BY <1>18 DEF Account!PromoteFails, Account!PlaceInv, Account!SupervisedIsWhole,
     Account!TerminalHasHome, Account!Hidden, Account!Started, Account!Settled,
     Account!Stored, Account!Disproved
<1>19. CASE Account!ProvisionRaises
  BY <1>19 DEF Account!ProvisionRaises, Account!PlaceInv, Account!SupervisedIsWhole,
     Account!TerminalHasHome, Account!Hidden, Account!Started, Account!Settled,
     Account!Stored, Account!Disproved, Account!InProvision, Account!Broken
<1>20. CASE Account!LeaseUncertain
  BY <1>20 DEF Account!LeaseUncertain, Account!PlaceInv, Account!SupervisedIsWhole,
     Account!TerminalHasHome, Account!Hidden, Account!Started, Account!Settled,
     Account!Stored, Account!Disproved, Account!InProvision
<1>21. CASE Account!NextCandidate
  BY <1>21 DEF Account!NextCandidate, Account!TypeOK, Account!TryType, Account!PlaceInv,
     Account!SupervisedIsWhole, Account!TerminalHasHome, Account!Hidden,
     Account!Started, Account!Settled, Account!Stored, Account!Disproved
<1>22. CASE Account!NoWizard
  BY <1>22 DEF Account!NoWizard, Account!PlaceInv, Account!SupervisedIsWhole,
     Account!TerminalHasHome, Account!Hidden, Account!Started, Account!Settled,
     Account!Stored, Account!Disproved
<1>23. CASE Account!HandleFailure
  <2>1. pc' = "cleanup" => status # "connected"
    BY <1>23, Milestones DEF Account!HandleFailure, Account!Protected,
       Account!SupervisedIsWhole, Account!Finish
  <2>2. pc' \in {"cleanup", "idle"} /\ UNCHANGED Account!disk
    BY <1>23 DEF Account!HandleFailure, Account!Finish
  <2>. QED
    BY <2>1, <2>2 DEF Account!PlaceInv, Account!SupervisedIsWhole,
       Account!TerminalHasHome, Account!Hidden, Account!Started, Account!Settled,
       Account!Stored, Account!Disproved, Account!disk
<1>24. CASE Account!Cleanup
  BY <1>24 DEF Account!Cleanup, Account!PlaceInv, Account!SupervisedIsWhole,
     Account!TerminalHasHome, Account!Hidden, Account!Started, Account!Settled,
     Account!Stored, Account!Disproved, Account!Goto
<1>25. CASE Account!CleanupFails
  BY <1>25 DEF Account!CleanupFails, Account!PlaceInv, Account!SupervisedIsWhole,
     Account!TerminalHasHome, Account!Hidden, Account!Started, Account!Settled,
     Account!Stored, Account!Disproved, Account!Finish, Account!disk
<1>26. CASE Account!Remove
  BY <1>26 DEF Account!Remove, Account!PlaceInv, Account!SupervisedIsWhole,
     Account!TerminalHasHome, Account!Hidden, Account!Started, Account!Settled,
     Account!Stored, Account!Disproved, Account!Goto
<1>27. CASE Account!Erase
  BY <1>27 DEF Account!Erase, Account!PlaceInv, Account!SupervisedIsWhole,
     Account!TerminalHasHome, Account!Hidden, Account!Started, Account!Settled,
     Account!Stored, Account!Disproved, Account!Goto, Account!NoCreds
<1>28. CASE Account!VerifyGone
  BY <1>28 DEF Account!VerifyGone, Account!PlaceInv, Account!SupervisedIsWhole,
     Account!TerminalHasHome, Account!Hidden, Account!Started, Account!Settled,
     Account!Stored, Account!Disproved, Account!Goto, Account!Finish, Account!disk
<1>29. CASE Account!HistoryBegins
  BY <1>29 DEF Account!HistoryBegins, Account!PlaceInv, Account!SupervisedIsWhole,
     Account!TerminalHasHome, Account!Hidden, Account!Started, Account!Settled,
     Account!Stored, Account!Disproved, Account!Goto
<1>30. CASE Account!HistoryLocks
  BY <1>30 DEF Account!HistoryLocks, Account!PlaceInv, Account!SupervisedIsWhole,
     Account!TerminalHasHome, Account!Hidden, Account!Started, Account!Settled,
     Account!Stored, Account!Disproved, Account!Goto, Account!disk
<1>31. CASE Account!LiveBegins
  BY <1>31 DEF Account!LiveBegins, Account!PlaceInv, Account!SupervisedIsWhole,
     Account!TerminalHasHome, Account!Hidden, Account!Started, Account!Settled,
     Account!Stored, Account!Disproved, Account!Goto
<1>32. CASE Account!Synced
  BY <1>32 DEF Account!Synced, Account!PlaceInv, Account!SupervisedIsWhole,
     Account!TerminalHasHome, Account!Hidden, Account!Started, Account!Settled,
     Account!Stored, Account!Disproved, Account!Finish
<1>33. CASE Account!SyncFails
  BY <1>33 DEF Account!SyncFails, Account!PlaceInv, Account!SupervisedIsWhole,
     Account!TerminalHasHome, Account!Hidden, Account!Started, Account!Settled,
     Account!Stored, Account!Disproved, Account!Finish
<1>34. CASE Account!NothingToSync
  BY <1>34 DEF Account!NothingToSync, Account!PlaceInv, Account!SupervisedIsWhole,
     Account!TerminalHasHome, Account!Hidden, Account!Started, Account!Settled,
     Account!Stored, Account!Disproved, Account!Finish, Account!disk
<1>35. CASE Account!DeprovisionBegins
  BY <1>35 DEF Account!DeprovisionBegins, Account!PlaceInv, Account!SupervisedIsWhole,
     Account!TerminalHasHome, Account!Hidden, Account!Started, Account!Settled,
     Account!Stored, Account!Disproved, Account!Goto
<1>36. CASE Account!StopTerminal
  BY <1>36 DEF Account!StopTerminal, Account!PlaceInv, Account!SupervisedIsWhole,
     Account!TerminalHasHome, Account!Hidden, Account!Started, Account!Settled,
     Account!Stored, Account!Disproved, Account!Goto
<1>37. CASE Account!List
  BY <1>37 DEF Account!List, Account!PlaceInv, Account!SupervisedIsWhole,
     Account!TerminalHasHome, Account!Hidden, Account!Started, Account!Settled,
     Account!Stored, Account!Disproved, Account!disk, Account!handler
<1>38. CASE Account!PollReads
  BY <1>38 DEF Account!PollReads, Account!PlaceInv, Account!SupervisedIsWhole,
     Account!TerminalHasHome, Account!Hidden, Account!Started, Account!Settled,
     Account!Stored, Account!Disproved, Account!disk, Account!handler
<1>39. CASE Account!PollOpens
  BY <1>39 DEF Account!PollOpens, Account!PlaceInv, Account!SupervisedIsWhole,
     Account!TerminalHasHome, Account!Hidden, Account!Started, Account!Settled,
     Account!Stored, Account!Disproved, Account!handler
<1>40. CASE Account!PollEnds
  BY <1>40 DEF Account!PollEnds, Account!PlaceInv, Account!SupervisedIsWhole,
     Account!TerminalHasHome, Account!Hidden, Account!Started, Account!Settled,
     Account!Stored, Account!Disproved, Account!disk, Account!handler
<1>41. CASE Account!TerminalDies
  BY <1>41 DEF Account!TerminalDies, Account!PlaceInv, Account!SupervisedIsWhole,
     Account!TerminalHasHome, Account!Hidden, Account!Started, Account!Settled,
     Account!Stored, Account!Disproved, Account!handler
<1>42. CASE Account!Crash
  BY <1>42 DEF Account!Crash, Account!PlaceInv, Account!SupervisedIsWhole,
     Account!TerminalHasHome, Account!Hidden, Account!Started, Account!Settled,
     Account!Stored, Account!Disproved, Account!Finish
<1>43. CASE UNCHANGED Account!vars
  BY <1>43 DEF Account!vars, Account!PlaceInv, Account!SupervisedIsWhole,
     Account!TerminalHasHome, Account!Hidden, Account!Started, Account!Settled,
     Account!Stored, Account!Disproved, Account!disk, Account!handler
<1>. QED
  BY <1>1, <1>2, <1>3, <1>4, <1>5, <1>6, <1>7, <1>8, <1>9, <1>10, <1>11, <1>12, <1>13,
     <1>14, <1>15, <1>16, <1>17, <1>18, <1>19, <1>20, <1>21, <1>22, <1>23, <1>24, <1>25,
     <1>26, <1>27, <1>28, <1>29, <1>30, <1>31, <1>32, <1>33, <1>34, <1>35, <1>36, <1>37,
     <1>38, <1>39, <1>40, <1>41, <1>42, <1>43 DEF Account!Next, Account!Handler,
     Account!Provision, Account!Discard, Account!Sync, Account!Deprovision,
     Account!Supervisor

\* The invariant holds at first, and every step keeps it.
LEMMA InitInv ==
  ASSUME Account!LifecycleAssumption, Account!Init
  PROVE  Account!IInv
<1>. USE DEF Account!Init
<1>1. Account!InstanceType
  BY DEF Account!InstanceType, Account!Status, Account!NoCreds
<1>2. Account!HandlerType
  BY DEF Account!HandlerType
<1>3. Account!TryType
  BY Account!LifecycleAssumption DEF Account!TryType, Account!NoTry,
     Account!LifecycleAssumption
<1>4. Account!SharedType
  BY DEF Account!SharedType
<1>5. jobs \in 0..MaxJobs /\ failures \in 0..MaxFailures
  BY Account!LifecycleAssumption DEF Account!LifecycleAssumption
<1>6. Account!PlaceInv /\ Account!SupervisedIsWhole /\ Account!TerminalHasHome
  BY DEF Account!PlaceInv, Account!SupervisedIsWhole, Account!TerminalHasHome,
     Account!Hidden, Account!Started, Account!Settled, Account!Stored, Account!Disproved
<1>. QED  BY <1>1, <1>2, <1>3, <1>4, <1>5, <1>6 DEF Account!IInv, Account!TypeOK

\* No step of another job, of the supervisor or of a cleanup moves the directory of
\* a connected account (real_handlers.py:1411).
LEMMA ConnectedStep ==
  ASSUME Account!IInv, [Account!Next]_Account!vars, status = "connected", kind # "deprovision"
  PROVE  root' = root
<1>1. CASE pc \in {"census", "instance", "remove"}
  BY <1>1 DEF Account!IInv, Account!PlaceInv, Account!Hidden
<1>2. CASE Account!PollOpens
  BY <1>2 DEF Account!PollOpens, Account!IInv, Account!SupervisedIsWhole
<1>3. CASE pc \notin {"census", "instance", "remove"} /\ ~Account!PollOpens
  BY <1>3 DEF Account!Next, Account!Handler, Account!Provision, Account!Discard,
     Account!Sync, Account!Deprovision, Account!Supervisor, Account!vars, Account!disk,
     Account!ClaimProvision, Account!Claim, Account!Resolve, Account!Census,
     Account!Wizard, Account!WriteIdentity, Account!WriteToken, Account!Instance,
     Account!Provisioned, Account!Attempt, Account!Launch, Account!Reach, Account!Seal,
     Account!Authenticated, Account!Promote, Account!Connected, Account!LaunchFails,
     Account!PromoteFails, Account!ProvisionRaises, Account!LeaseUncertain,
     Account!NextCandidate, Account!NoWizard, Account!HandleFailure, Account!Cleanup,
     Account!CleanupFails, Account!Remove, Account!Erase, Account!VerifyGone,
     Account!HistoryBegins, Account!HistoryLocks, Account!LiveBegins, Account!Synced,
     Account!SyncFails, Account!NothingToSync, Account!DeprovisionBegins,
     Account!StopTerminal, Account!List, Account!PollReads, Account!PollEnds,
     Account!TerminalDies, Account!Crash
<1>. QED  BY <1>1, <1>2, <1>3

\* A behaviour of the composition is one of the account's.
LEMMA AccountComposed == SpecOne => Account!Spec
<1>1. InitOne => Account!Init
  BY DEF InitOne
<1>2. [NextOne]_allVars => [Account!Next]_Account!vars
  BY DEF NextOne, OfAccount, OfLab, allVars, accountVars, Account!vars, Account!disk,
     Account!handler, Account!bounds
<1>. QED  BY <1>1, <1>2, PTL DEF SpecOne, Account!Spec

\* The inductive invariant.
LEMMA AccountInvariant == Account!Spec => []Account!IInv
<1>1. Account!Init => Account!IInv
  BY InitInv, AccountsAssumption
<1>2. Account!IInv /\ [Account!Next]_Account!vars => Account!IInv'
  BY TypeStep, PlaceStep, AccountsAssumption DEF Account!IInv
<1>. QED  BY <1>1, <1>2, PTL DEF Account!Spec

\* What the reader of an account's files may rely on, whatever step the jobs before
\* it stopped at: the variables have their types, a connected account is published,
\* with all its secrets and the profile of its login, and no terminal runs without
\* its instance (event_supervisor.py:89, real_handlers.py:1379).
THEOREM AccountWhole == SpecOne => []AccountIsWhole
<1>1. Account!IInv => AccountIsWhole
  BY DEF Account!IInv, AccountIsWhole, Account!AccountIsWhole
<1>. QED  BY <1>1, AccountComposed, AccountInvariant, PTL

\* While an account is connected only a deprovision may move its directory
\* (real_handlers.py:1411).
THEOREM ConnectedStays == SpecOne => ConnectedIsKept
<1>1. Account!IInv /\ [Account!Next]_Account!vars =>
        [status = "connected" /\ kind # "deprovision" => root' = root]_Account!vars
  BY ConnectedStep
<1>. QED
  BY <1>1, AccountComposed, AccountInvariant, PTL DEF Account!Spec, ConnectedIsKept,
     Account!ConnectedIsKept
=============================================================================
