---------------------------- MODULE SiteAdmission ----------------------------
(***************************************************************************)
(* A Site is proposed with any combination of fields; the API server       *)
(* admits or rejects it by the CEL rule of the CRD; what is admitted is    *)
(* rendered into objects.  The properties say that the pieces of code that *)
(* read the same field in different files agree with each other.           *)
(***************************************************************************)
EXTENDS SiteSpec

VARIABLES
    proposed,   \* the spec a user applies
    verdict     \* "pending", "admitted" or "rejected"

vars == << proposed, verdict >>

TypeOK ==
    /\ proposed \in SiteSpecs
    /\ verdict \in { "pending", "admitted", "rejected" }

Init ==
    /\ proposed \in SiteSpecs
    /\ verdict = "pending"

Admit ==
    /\ verdict = "pending"
    /\ Admitted(proposed)
    /\ verdict' = "admitted"
    /\ UNCHANGED proposed

Reject ==
    /\ verdict = "pending"
    /\ ~Admitted(proposed)
    /\ verdict' = "rejected"
    /\ UNCHANGED proposed

Next == Admit \/ Reject

Spec == Init /\ [][Next]_vars

-----------------------------------------------------------------------------

Rendered == verdict = "admitted"

\* Every key of <site>-site-secret a container of the pod refers to is one
\* reconcileSecret generates for the same spec: secret.go and the env builders
\* of helpers.go and deployment.go test the same fields the same way.  A key
\* that is referred to and not generated keeps the pod from ever starting.
EnvRefsGenerated == Rendered => SiteSecretRefs(proposed) \subseteq GeneratedKeys(proposed)

\* An admitted Site gives WordPress one database user and one database
\* password, each from exactly one source: the CEL rule leaves buildDatabaseEnvs
\* neither a missing nor a doubled credential.
CredentialsComplete ==
    Rendered =>
        \A n \in { "DB_USER", "DB_PASSWORD" } :
            Cardinality({ e \in PodEnvs(proposed) : e.name = n }) = 1

\* Every port the Ingress routes to is a port of the Service, and every port
\* of the Service is one some container listens on.
RoutesServed ==
    Rendered => /\ IngressPorts(proposed) \subseteq ServicePorts(proposed)
                /\ ServicePorts(proposed) \subseteq ContainerPorts(proposed)

\* The claim <site>-data that the PVC step creates is the one the pod mounts, and
\* the pod mounts the claim the step deletes in one case only: the Site names
\* <site>-data as its existing claim (buildSiteDataVolume mounts what existingClaim
\* names, reconcilePVC deletes <site>-data whatever it names).
ClaimMatchesVolume ==
    Rendered =>
        LET mounted == SiteDataVolume(proposed) = "own" IN
        /\ Wanted("Volume", proposed) => mounted
        /\ Withdrawn("Volume", proposed) /\ mounted <=> NamesOwnClaim(proposed)

=============================================================================
