---------------------------- MODULE SiteSpecProofs ----------------------------
(***************************************************************************)
(* Facts about what the operator derives from a spec, for every spec.      *)
(***************************************************************************)
EXTENDS SiteSpec, TLAPS

\* A variable of the pod that is read from the Site's Secret is a salt, the
\* provisioned DB_PASSWORD, or the ADMIN_PASSWORD of an install without one.
LEMMA PodEnvSources ==
    ASSUME NEW s \in SiteSpecs, NEW e \in PodEnvs(s), e.from = "site-secret"
    PROVE  e.name \in GeneratedKeys(s)
<1>1. CASE e \in DatabaseEnvs(s)
  BY <1>1 DEF DatabaseEnvs, CredentialEnv, SecretEnv, Env, GeneratedKeys
<1>2. CASE s.install /\ e \in InstallEnvs(s)
  <2>1. e = SecretEnv("ADMIN_PASSWORD") /\ "secret" \notin s.adminPassword
          /\ "plain" \notin s.adminPassword
    BY <1>2 DEF InstallEnvs, SecretEnv, Env
  <2>2. s.adminPassword = {}
    BY <2>1 DEF SiteSpecs
  <2> QED
    BY <1>2, <2>1, <2>2 DEF SecretEnv, Env, GeneratedKeys
<1>3. CASE e \in { SecretEnv(k) : k \in Salts }
  BY <1>3 DEF SecretEnv, Env, GeneratedKeys
<1> QED
  BY <1>1, <1>2, <1>3 DEF PodEnvs, WPEnvs, Env

\* So is a variable of the file browser: secret.go generates what the builders of
\* the environment refer to.
LEMMA RefsAreGenerated ==
    ASSUME NEW s \in SiteSpecs
    PROVE  SiteSecretRefs(s) \subseteq GeneratedKeys(s)
<1>1. ASSUME NEW e \in FileBrowserEnvs(s) PROVE e.name \in GeneratedKeys(s)
  BY <1>1 DEF FileBrowserEnvs, SecretEnv, Env, GeneratedKeys
<1> QED
  BY <1>1, PodEnvSources DEF SiteSecretRefs
=============================================================================
