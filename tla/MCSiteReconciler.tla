-------------------------- MODULE MCSiteReconciler --------------------------
(***************************************************************************)
(* Values for the constants of SiteReconciler: a few Sites that differ in  *)
(* the fields the controller branches on.                                  *)
(***************************************************************************)
EXTENDS SiteReconciler, SequencesExt

CONSTANTS o1, o2, t1, t2, plain, tuned

\* The smallest Site: credentials of the user's, nothing optional.
Bare == [ install |-> FALSE, adminPassword |-> {}, provision |-> FALSE, mariadbRef |-> FALSE,
          credentials |-> { "user", "password" }, fileBrowser |-> "unset",
          ingress |-> FALSE, absolutePath |-> FALSE,
          persistence |-> FALSE, existingClaim |-> "none", parsableSize |-> TRUE,
          nginx |-> plain, php |-> plain ]

\* Everything on, the database provisioned.
Full == [ Bare EXCEPT !.install = TRUE, !.provision = TRUE, !.mariadbRef = TRUE,
                      !.credentials = {}, !.fileBrowser = "on",
                      !.ingress = TRUE, !.absolutePath = TRUE, !.persistence = TRUE,
                      !.nginx = tuned ]

\* A claim and the file browser, nothing provisioned.
Claimed == [ Bare EXCEPT !.fileBrowser = "on", !.persistence = TRUE ]

\* The same, and the claim is one to attach: the Site's own, by its name.
Named == [ Claimed EXCEPT !.existingClaim = "own" ]

\* config/samples/site_v1alpha1_site.yaml: an Ingress without a path.
Sample == [ Bare EXCEPT !.credentials = { "userSecret", "passwordSecret" },
                        !.fileBrowser = "on", !.ingress = TRUE ]

\* Sites no pass can carry out: a size that does not parse, no MariaDB cluster.
BadSize == [ Full EXCEPT !.parsableSize = FALSE ]
NoCluster == [ Full EXCEPT !.mariadbRef = FALSE ]

\* The steps of a pass, and a pass cut down to some kinds.
AllSteps == ReconcileOrder
Sequence(kinds) == SelectSeq(ReconcileOrder, LAMBDA k : k \in kinds)
JustSecret      == Sequence({ "Secret" })
SecretAndPod    == Sequence({ "Secret", "Deployment" })
SecretPodVolume == Sequence({ "Secret", "Deployment", "Volume" })

\* The specs users apply.
JustClaimed    == { Claimed }
BareAndClaimed == { Bare, Claimed }
WithNamed      == { Bare, Claimed, Named }
SizeEdited     == { Full, BadSize }
WithRefused    == { Full, NoCluster, Sample, BadSize }

\* Operators are alike, and so are the random keys.
Interchangeable == Permutations({ o1, o2 }) \cup Permutations({ t1, t2 })
=============================================================================
