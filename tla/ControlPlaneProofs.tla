------------------------- MODULE ControlPlaneProofs -------------------------
(***************************************************************************)
(* The components around the database, together: what is proved of each of *)
(* them alone holds where all are beside each other.                       *)
(***************************************************************************)
EXTENDS ControlPlane, AccountProofs, RunProofs, PlatformProofs

-----------------------------------------------------------------------------
\* Seen by itself, every component behaves as its own specification says, what
\* the others do being stuttering to it.
THEOREM ComponentsKeepTheirOwn ==
  Spec => /\ EnrolSpec /\ CliSpec /\ MemberSpec /\ MatchSpec
          /\ LedgerSpec /\ BootSpec /\ ArtifactSpec /\ FedSpec
          /\ PoolSpec /\ VenueSpec /\ AgentSpec /\ SubSpec
          /\ MigrateSpec /\ RouterSpec /\ DemoSpec /\ GuestSpec
<1>1. Spec => EnrolSpec
  <2>1. Init => EnrolInit
    BY DEF Init
  <2>2. [Next]_allVars => [EnrolNext]_enrolVars
    BY Zenon DEF Next, allVars
  <2> QED
    BY <2>1, <2>2, PTL DEF Spec, EnrolSpec
<1>2. Spec => CliSpec
  <2>1. Init => CliInit
    BY DEF Init
  <2>2. [Next]_allVars => [CliNext]_cliVars
    BY Zenon DEF Next, allVars
  <2> QED
    BY <2>1, <2>2, PTL DEF Spec, CliSpec
<1>3. Spec => MemberSpec
  <2>1. Init => MemberInit
    BY DEF Init
  <2>2. [Next]_allVars => [MemberNext]_memberVars
    BY Zenon DEF Next, allVars
  <2> QED
    BY <2>1, <2>2, PTL DEF Spec, MemberSpec
<1>4. Spec => MatchSpec
  <2>1. Init => MatchInit
    BY DEF Init
  <2>2. [Next]_allVars => [MatchNext]_matchVars
    BY Zenon DEF Next, allVars
  <2> QED
    BY <2>1, <2>2, PTL DEF Spec, MatchSpec
<1>5. Spec => LedgerSpec
  <2>1. Init => LedgerInit
    BY DEF Init
  <2>2. [Next]_allVars => [LedgerNext]_ledgerVars
    BY Zenon DEF Next, allVars
  <2> QED
    BY <2>1, <2>2, PTL DEF Spec, LedgerSpec
<1>6. Spec => BootSpec
  <2>1. Init => BootInit
    BY DEF Init
  <2>2. [Next]_allVars => [BootNext]_bootVars
    BY Zenon DEF Next, allVars
  <2> QED
    BY <2>1, <2>2, PTL DEF Spec, BootSpec
<1>7. Spec => ArtifactSpec
  <2>1. Init => ArtifactInit
    BY DEF Init
  <2>2. [Next]_allVars => [ArtifactNext]_artifactVars
    BY Zenon DEF Next, allVars
  <2> QED
    BY <2>1, <2>2, PTL DEF Spec, ArtifactSpec
<1>8. Spec => FedSpec
  <2>1. Init => FedInit
    BY DEF Init
  <2>2. [Next]_allVars => [FedNext]_fedVars
    BY Zenon DEF Next, allVars
  <2> QED
    BY <2>1, <2>2, PTL DEF Spec, FedSpec
<1>9. Spec => PoolSpec
  <2>1. Init => PoolInit
    BY DEF Init
  <2>2. [Next]_allVars => [PoolNext]_poolVars
    BY Zenon DEF Next, allVars
  <2> QED
    BY <2>1, <2>2, PTL DEF Spec, PoolSpec
<1>10. Spec => VenueSpec
  <2>1. Init => VenueInit
    BY DEF Init
  <2>2. [Next]_allVars => [VenueNext]_venueVars
    BY Zenon DEF Next, allVars
  <2> QED
    BY <2>1, <2>2, PTL DEF Spec, VenueSpec
<1>11. Spec => AgentSpec
  <2>1. Init => AgentInit
    BY DEF Init
  <2>2. [Next]_allVars => [AgentNext]_agentVars
    BY Zenon DEF Next, allVars
  <2> QED
    BY <2>1, <2>2, PTL DEF Spec, AgentSpec
<1>12. Spec => SubSpec
  <2>1. Init => SubInit
    BY DEF Init
  <2>2. [Next]_allVars => [SubNext]_subVars
    BY Zenon DEF Next, allVars
  <2> QED
    BY <2>1, <2>2, PTL DEF Spec, SubSpec
<1>13. Spec => MigrateSpec
  <2>1. Init => MigrateInit
    BY DEF Init
  <2>2. [Next]_allVars => [MigrateNext]_migrateVars
    BY Zenon DEF Next, allVars
  <2> QED
    BY <2>1, <2>2, PTL DEF Spec, MigrateSpec
<1>14. Spec => RouterSpec
  <2>1. Init => RouterInit
    BY DEF Init
  <2>2. [Next]_allVars => [RouterNext]_routerVars
    BY Zenon DEF Next, allVars
  <2> QED
    BY <2>1, <2>2, PTL DEF Spec, RouterSpec
<1>15. Spec => DemoSpec
  <2>1. Init => DemoInit
    BY DEF Init
  <2>2. [Next]_allVars => [DemoNext]_demoVars
    BY Zenon DEF Next, allVars
  <2> QED
    BY <2>1, <2>2, PTL DEF Spec, DemoSpec
<1>16. Spec => GuestSpec
  <2>1. Init => GuestInit
    BY DEF Init
  <2>2. [Next]_allVars => [GuestNext]_guestVars
    BY Zenon DEF Next, allVars
  <2> QED
    BY <2>1, <2>2, PTL DEF Spec, GuestSpec
<1> QED
  BY <1>1, <1>2, <1>3, <1>4, <1>5, <1>6, <1>7, <1>8, <1>9, <1>10, <1>11, <1>12,
     <1>13, <1>14, <1>15, <1>16

\* What the components promise about accounts, tokens, codes, invites and credits
\* holds of the whole, with no bound on any of them.
THEOREM AccountsAreSafe ==
  Spec => /\ []RevokedTokenStaysDead /\ []ApproverOwnsMachine
          /\ []OneCliCredential /\ []InviteIsHonoured
          /\ []CreditsAreMintedOnce /\ []JoinsConverge
BY ComponentsKeepTheirOwn, DeadTokensStayDead, ApprovalGivesNothingAway,
   CodeYieldsOneCredential, InvitesAreHonoured, MintedOnce, GuestsConverge

\* So does what the market promises: a bid is not filled twice, newcomers share one
\* allowance of a job, what is open serves what waits, and its book of bids is one
\* that only grows as they say; and what its pages quote is so.
THEOREM MarketIsSafe ==
  Spec => /\ []NotOverEntitled /\ []NewcomersShareOneAllowance /\ []NoDemandIsMissed
          /\ KeepsMatchBook /\ []QuotesAreSound
BY ComponentsKeepTheirOwn, BidsAreNotOverfilled, AllowanceIsOne, DemandIsServed,
   ImplementsMatchBook, QuotesHold

\* So does what they promise about runs: their history, their purchases, the
\* presses that start them, the mirror of their files, their code and their data.
THEOREM RunsAreSafe ==
  Spec => /\ []RowsAreOneHistory /\ []AtMostOnePurchasePerDeath
          /\ []PressesJoinTheRun /\ []ManifestIsWhole /\ []PostedJobIsWhole
BY ComponentsKeepTheirOwn, TrainingIsOneHistory, PurchasesAccountedFor,
   DemoPressesJoin, ManifestsAreWhole, JobsAreWhole

\* And what they promise about the connections, the schema, the calls to the
\* venues and the sandboxes that become nodes.
THEOREM PlatformIsSafe ==
  Spec => /\ []OneBorrowerEach /\ []SchemaIsWhatIsRecorded
          /\ []NoWorkIsPassedBy /\ []OneWorkerNoCredential
BY ComponentsKeepTheirOwn, ConnectionsAreNotShared, SchemaMatchesRecord,
   ClaimsFindWork, OneWorkerIsLeft

\* The types of every component (TypeOK), in every state of the whole.
THEOREM ControlPlaneTyped == Spec => []TypeOK
<1>1. /\ EnrolTypeOK /\ CliTypeOK /\ MemberTypeOK /\ MatchTypeOK /\ LedgerTypeOK /\ BootTypeOK
      /\ ArtifactTypeOK /\ FedTypeOK /\ PoolTypeOK /\ VenueTypeOK /\ AgentTypeOK /\ SubTypeOK
      /\ MigrateTypeOK /\ RouterTypeOK /\ DemoTypeOK /\ GuestTypeOK
      => TypeOK
      BY Zenon DEF TypeOK
<1> QED BY <1>1, ComponentsKeepTheirOwn, EnrolTyped, CliTyped, MemberTyped, MatchTyped, LedgerTyped,
     BootTyped, ArtTyped, FedTyped, PoolTyped, VenueTyped, AgentTyped, SubTyped, MigrateTyped,
     RouterTyped, DemoTyped, GuestTyped, PTL
=============================================================================
