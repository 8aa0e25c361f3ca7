---------------------------- MODULE ControlPlane ----------------------------
(***************************************************************************)
(* The components around the database, each beside the others in one       *)
(* specification.  They share the accounts and the API processes but none  *)
(* of the state modelled, so a behaviour is one component's: `part` names  *)
(* the one that moves, and the others stay as they start.                  *)
(***************************************************************************)
EXTENDS Enrolment, CliLogin, Membership, Matching, CreditLedger,
        SandboxBootstrap, JobArtifacts, FederatedRun, ConnectionPool,
        VenueRouting, AgentRun, Submission, Migrations, RouterPlan,
        DemoRun, GuestJoin

VARIABLE part

Parts == {"enrolment", "cli", "membership", "matching", "ledger",
          "bootstrap", "artifacts", "federated", "pool", "venues",
          "agents", "submissions", "migrations", "router", "demo", "guests"}

allVars == <<part, enrolVars, cliVars, memberVars, matchVars, ledgerVars,
             bootVars, artifactVars, fedVars, poolVars, venueVars,
             agentVars, subVars, migrateVars, routerVars, demoVars,
             guestVars>>

Init ==
  /\ part \in Parts
  /\ EnrolInit
  /\ CliInit
  /\ MemberInit
  /\ MatchInit
  /\ LedgerInit
  /\ BootInit
  /\ ArtifactInit
  /\ FedInit
  /\ PoolInit
  /\ VenueInit
  /\ AgentInit
  /\ SubInit
  /\ MigrateInit
  /\ RouterInit
  /\ DemoInit
  /\ GuestInit

Next ==
  \/ /\ part = "enrolment" /\ EnrolNext
     /\ UNCHANGED <<part, cliVars, memberVars, matchVars, ledgerVars,
                     bootVars, artifactVars, fedVars, poolVars, venueVars,
                     agentVars, subVars, migrateVars, routerVars, demoVars,
                     guestVars>>
  \/ /\ part = "cli" /\ CliNext
     /\ UNCHANGED <<part, enrolVars, memberVars, matchVars, ledgerVars,
                     bootVars, artifactVars, fedVars, poolVars, venueVars,
                     agentVars, subVars, migrateVars, routerVars, demoVars,
                     guestVars>>
  \/ /\ part = "membership" /\ MemberNext
     /\ UNCHANGED <<part, enrolVars, cliVars, matchVars, ledgerVars,
                     bootVars, artifactVars, fedVars, poolVars, venueVars,
                     agentVars, subVars, migrateVars, routerVars, demoVars,
                     guestVars>>
  \/ /\ part = "matching" /\ MatchNext
     /\ UNCHANGED <<part, enrolVars, cliVars, memberVars, ledgerVars,
                     bootVars, artifactVars, fedVars, poolVars, venueVars,
                     agentVars, subVars, migrateVars, routerVars, demoVars,
                     guestVars>>
  \/ /\ part = "ledger" /\ LedgerNext
     /\ UNCHANGED <<part, enrolVars, cliVars, memberVars, matchVars,
                     bootVars, artifactVars, fedVars, poolVars, venueVars,
                     agentVars, subVars, migrateVars, routerVars, demoVars,
                     guestVars>>
  \/ /\ part = "bootstrap" /\ BootNext
     /\ UNCHANGED <<part, enrolVars, cliVars, memberVars, matchVars,
                     ledgerVars, artifactVars, fedVars, poolVars,
                     venueVars, agentVars, subVars, migrateVars,
                     routerVars, demoVars, guestVars>>
  \/ /\ part = "artifacts" /\ ArtifactNext
     /\ UNCHANGED <<part, enrolVars, cliVars, memberVars, matchVars,
                     ledgerVars, bootVars, fedVars, poolVars, venueVars,
                     agentVars, subVars, migrateVars, routerVars, demoVars,
                     guestVars>>
  \/ /\ part = "federated" /\ FedNext
     /\ UNCHANGED <<part, enrolVars, cliVars, memberVars, matchVars,
                     ledgerVars, bootVars, artifactVars, poolVars,
                     venueVars, agentVars, subVars, migrateVars,
                     routerVars, demoVars, guestVars>>
  \/ /\ part = "pool" /\ PoolNext
     /\ UNCHANGED <<part, enrolVars, cliVars, memberVars, matchVars,
                     ledgerVars, bootVars, artifactVars, fedVars,
                     venueVars, agentVars, subVars, migrateVars,
                     routerVars, demoVars, guestVars>>
  \/ /\ part = "venues" /\ VenueNext
     /\ UNCHANGED <<part, enrolVars, cliVars, memberVars, matchVars,
                     ledgerVars, bootVars, artifactVars, fedVars, poolVars,
                     agentVars, subVars, migrateVars, routerVars, demoVars,
                     guestVars>>
  \/ /\ part = "agents" /\ AgentNext
     /\ UNCHANGED <<part, enrolVars, cliVars, memberVars, matchVars,
                     ledgerVars, bootVars, artifactVars, fedVars, poolVars,
                     venueVars, subVars, migrateVars, routerVars, demoVars,
                     guestVars>>
  \/ /\ part = "submissions" /\ SubNext
     /\ UNCHANGED <<part, enrolVars, cliVars, memberVars, matchVars,
                     ledgerVars, bootVars, artifactVars, fedVars, poolVars,
                     venueVars, agentVars, migrateVars, routerVars,
                     demoVars, guestVars>>
  \/ /\ part = "migrations" /\ MigrateNext
     /\ UNCHANGED <<part, enrolVars, cliVars, memberVars, matchVars,
                     ledgerVars, bootVars, artifactVars, fedVars, poolVars,
                     venueVars, agentVars, subVars, routerVars, demoVars,
                     guestVars>>
  \/ /\ part = "router" /\ RouterNext
     /\ UNCHANGED <<part, enrolVars, cliVars, memberVars, matchVars,
                     ledgerVars, bootVars, artifactVars, fedVars, poolVars,
                     venueVars, agentVars, subVars, migrateVars, demoVars,
                     guestVars>>
  \/ /\ part = "demo" /\ DemoNext
     /\ UNCHANGED <<part, enrolVars, cliVars, memberVars, matchVars,
                     ledgerVars, bootVars, artifactVars, fedVars, poolVars,
                     venueVars, agentVars, subVars, migrateVars,
                     routerVars, guestVars>>
  \/ /\ part = "guests" /\ GuestNext
     /\ UNCHANGED <<part, enrolVars, cliVars, memberVars, matchVars,
                     ledgerVars, bootVars, artifactVars, fedVars, poolVars,
                     venueVars, agentVars, subVars, migrateVars,
                     routerVars, demoVars>>

Spec == Init /\ [][Next]_allVars

TypeOK ==
  /\ EnrolTypeOK
  /\ CliTypeOK
  /\ MemberTypeOK
  /\ MatchTypeOK
  /\ LedgerTypeOK
  /\ BootTypeOK
  /\ ArtifactTypeOK
  /\ FedTypeOK
  /\ PoolTypeOK
  /\ VenueTypeOK
  /\ AgentTypeOK
  /\ SubTypeOK
  /\ MigrateTypeOK
  /\ RouterTypeOK
  /\ DemoTypeOK
  /\ GuestTypeOK
=============================================================================
