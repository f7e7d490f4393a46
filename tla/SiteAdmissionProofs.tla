------------------------- MODULE SiteAdmissionProofs -------------------------
(***************************************************************************)
(* What SiteAdmission says of every Site, for any contents of its config   *)
(* blocks.  Each theorem is the type invariant and a fact about the        *)
(* operators of SiteSpec.                                                  *)
(***************************************************************************)
EXTENDS SiteAdmission, SiteSpecProofs, FiniteSetTheorems, TLAPS

\* The proposal stays a spec, and the verdict on it is the CEL rule's.
LEMMA Judged == Spec => [](TypeOK /\ (Rendered => Admitted(proposed)))
<1> DEFINE Inv == TypeOK /\ (Rendered => Admitted(proposed))
<1>1. Init => Inv
  BY DEF Init, TypeOK, Rendered
<1>2. Inv /\ [Next]_vars => Inv'
  BY DEF Next, Admit, Reject, vars, TypeOK, Rendered
<1> QED
  BY <1>1, <1>2, PTL DEF Spec

\* No container of an admitted Site refers to a key of the Site's Secret that
\* reconcileSecret does not generate.
THEOREM RefsGenerated == Spec => []EnvRefsGenerated
<1>1. TypeOK => EnvRefsGenerated
  BY RefsAreGenerated DEF TypeOK, EnvRefsGenerated
<1> QED
  BY <1>1, Judged, PTL

\* No variable of WordPress itself is called like a database credential.
LEMMA WPEnvNames ==
    ASSUME NEW s, NEW e \in WPEnvs(s)
    PROVE  e.name \notin { "DB_USER", "DB_PASSWORD" }
<1>1. CASE e \in InstallEnvs(s)
  BY <1>1 DEF InstallEnvs, SecretEnv, Env
<1>2. CASE e \notin InstallEnvs(s)
  BY <1>2 DEF WPEnvs, SecretEnv, Env, Salts
<1> QED
  BY <1>1, <1>2

\* The CEL rule leaves one source for each of the two credentials.
LEMMA OneSource ==
    ASSUME NEW s \in SiteSpecs, Admitted(s), NEW n \in { "DB_USER", "DB_PASSWORD" }
    PROVE  \E e : { d \in DatabaseEnvs(s) : d.name = n } = { e }
<1> DEFINE Named == { d \in DatabaseEnvs(s) : d.name = n }
<1>1. CASE s.provision /\ n = "DB_USER"
  <2>1. Named = { Env("DB_USER", "value") }
    BY <1>1 DEF DatabaseEnvs, SecretEnv, Env
  <2> QED
    BY <2>1
<1>2. CASE s.provision /\ n = "DB_PASSWORD"
  <2>1. Named = { SecretEnv("DB_PASSWORD") }
    BY <1>2 DEF DatabaseEnvs, SecretEnv, Env
  <2> QED
    BY <2>1
<1>3. CASE ~s.provision
  <2> DEFINE secretField == IF n = "DB_USER" THEN "userSecret" ELSE "passwordSecret"
             plainField  == IF n = "DB_USER" THEN "user" ELSE "password"
  <2>1. Named = CredentialEnv(s, n, secretField, plainField)
    BY <1>3 DEF DatabaseEnvs, CredentialEnv, Env
  <2>2. secretField \in s.credentials \/ plainField \in s.credentials
    BY <1>3 DEF Admitted
  <2>3. \E e : CredentialEnv(s, n, secretField, plainField) = { e }
    BY <2>2 DEF CredentialEnv
  <2> QED
    BY <2>1, <2>3
<1> QED
  BY <1>1, <1>2, <1>3

\* An admitted Site gives WordPress one database user and one password.
THEOREM CredentialsUnique == Spec => []CredentialsComplete
<1>1. TypeOK /\ (Rendered => Admitted(proposed)) => CredentialsComplete
  <2> SUFFICES ASSUME TypeOK, Admitted(proposed), NEW n \in { "DB_USER", "DB_PASSWORD" }
               PROVE  Cardinality({ e \in PodEnvs(proposed) : e.name = n }) = 1
    BY DEF CredentialsComplete
  <2>1. PICK e : { d \in DatabaseEnvs(proposed) : d.name = n } = { e }
    BY OneSource DEF TypeOK
  <2>2. { d \in PodEnvs(proposed) : d.name = n } = { e }
    BY <2>1, WPEnvNames DEF PodEnvs
  <2> QED
    BY <2>2, FS_Singleton
<1> QED
  BY <1>1, Judged, PTL

\* Every route ends at a port that a container listens on.
THEOREM RoutesEnd == Spec => []RoutesServed
<1>1. RoutesServed
  BY DEF RoutesServed, IngressPorts, ServicePorts, ContainerPorts
<1> QED
  BY <1>1, PTL

\* The claim that is kept is mounted; one that is withdrawn is mounted only by a Site
\* that names it as its existing claim.
THEOREM ClaimMounted == Spec => []ClaimMatchesVolume
<1>1. ClaimMatchesVolume
  BY DEF ClaimMatchesVolume, Wanted, Withdrawn, OwnClaim, NamesOwnClaim,
         SiteDataVolume, MariaDBKinds
<1> QED
  BY <1>1, PTL
=============================================================================
