------------------------------ MODULE SiteSpec ------------------------------
(***************************************************************************)
(* What a Site asks for (api/v1alpha1/site_types.go) and what the operator *)
(* derives from it: the keys it generates into <site>-site-secret, the     *)
(* environment of the containers, the volume of the pod, the ports, and    *)
(* the objects it creates or deletes.  Everything here is a function of    *)
(* the spec: no state, no time.                                            *)
(*                                                                         *)
(* A spec keeps the fields the controller branches on.  A string is        *)
(* replaced by the test the code (or the API server) makes of it: whether  *)
(* the Ingress path is absolute, whether the size parses, whether a        *)
(* reference is there.                                                     *)
(***************************************************************************)
EXTENDS FiniteSets

CONSTANTS
    Configs,            \* contents of spec.nginx and spec.php (image and config block)
    DefaultMariaDBRef   \* whether --default-mariadb-name was given to the operator

ASSUME DefaultRefAssumption == DefaultMariaDBRef \in BOOLEAN

Salts == { "AUTH_KEY", "SECURE_AUTH_KEY", "LOGGED_IN_KEY", "NONCE_KEY",
           "AUTH_SALT", "SECURE_AUTH_SALT", "LOGGED_IN_SALT", "NONCE_SALT" }

\* Every key reconcileSecret can generate.
SecretKeys == Salts \cup { "DB_PASSWORD", "ADMIN_PASSWORD", "FB_PASSWORD" }

Credentials == { "user", "userSecret", "password", "passwordSecret" }

SiteSpecs ==
    [ install       : BOOLEAN,                      \* spec.wordpress.install is set
      adminPassword : SUBSET { "plain", "secret" }, \* which of the two fields it sets
      provision     : BOOLEAN,                      \* spec.provision.database.enabled
      mariadbRef    : BOOLEAN,                      \* its mariadbRef names a cluster
      credentials   : SUBSET Credentials,           \* fields set under spec.database
      fileBrowser   : { "unset", "off", "on" },     \* spec.fileBrowser, its enabled
      ingress       : BOOLEAN,                      \* spec.ingress.enabled
      absolutePath  : BOOLEAN,                      \* spec.ingress.path starts with "/"
      persistence   : BOOLEAN,                      \* spec.persistence.enabled
      existingClaim : { "none", "other", "own" },   \* the claim it names; "own": <site>-data
      parsableSize  : BOOLEAN,                      \* spec.persistence.size is a quantity
      nginx         : Configs,
      php           : Configs ]

\* Operators named "Buggy..." are mutated forms of the definition that follows
\* them: the runs must tell each of them from the code.

BuggyAdmittedUnlessProvisioned(s) == s.provision => s.credentials = {}

\* The CEL rule the API server applies to every create and update of a Site.
Admitted(s) ==
    LET set(f) == f \in s.credentials IN
    IF s.provision THEN s.credentials = {}
                   ELSE /\ set("userSecret") # set("user")
                        /\ set("passwordSecret") # set("password")

FileBrowserEnabled(s) == s.fileBrowser = "on"

\* The operator keeps <site>-data for the Site, unless the Site names a claim to use ...
OwnClaim(s) == s.persistence /\ s.existingClaim = "none"

\* ... which may be called <site>-data: nothing rules that name out.
NamesOwnClaim(s) == s.persistence /\ s.existingClaim = "own"

-----------------------------------------------------------------------------
(* The Secret.                                                             *)

BuggyGeneratedKeysByInstall(s) ==
    Salts
      \cup { k \in {"DB_PASSWORD"}    : s.provision }
      \cup { k \in {"ADMIN_PASSWORD"} : s.install /\ s.adminPassword = {} }
      \cup { k \in {"FB_PASSWORD"}    : FileBrowserEnabled(s) /\ s.install }

\* The keys a pass over spec s adds when they are missing (reconcileSecret).
GeneratedKeys(s) ==
    Salts
      \cup { k \in {"DB_PASSWORD"}    : s.provision }
      \cup { k \in {"ADMIN_PASSWORD"} : s.install /\ s.adminPassword = {} }
      \cup { k \in {"FB_PASSWORD"}    : FileBrowserEnabled(s) }

-----------------------------------------------------------------------------
(* The environment of the php-fpm container.  A variable has a name and a  *)
(* source: a literal, a Secret of the user's, or the key of the same name  *)
(* in <site>-site-secret (secretEnv).                                      *)

Env(n, source) == [name |-> n, from |-> source]

SecretEnv(n) == Env(n, "site-secret")

InstallEnvs(s) ==
    { Env(n, "value") : n \in { "WP_INSTALL", "WP_ADMIN_USER", "WP_ADMIN_EMAIL", "WP_TITLE" } }
      \cup { IF "secret" \in s.adminPassword THEN Env("WP_ADMIN_PASSWORD", "user-secret")
             ELSE IF "plain" \in s.adminPassword THEN Env("WP_ADMIN_PASSWORD", "value")
             ELSE SecretEnv("ADMIN_PASSWORD") }

WPEnvs(s) ==
    { Env(n, "value") : n \in { "WP_HOME", "WP_SITEURL", "WP_DEBUG", "WP_DEBUG_LOG",
                                "WP_DEBUG_DISPLAY" } }
      \cup { SecretEnv(k) : k \in Salts }
      \cup (IF s.install THEN InstallEnvs(s) ELSE {})

\* One credential: the reference to a Secret wins over the literal.
CredentialEnv(s, name, secretField, plainField) ==
    IF secretField \in s.credentials THEN { Env(name, "user-secret") }
    ELSE IF plainField \in s.credentials THEN { Env(name, "value") }
    ELSE {}

DatabaseEnvs(s) ==
    { Env("DB_HOST", "value"), Env("DB_NAME", "value") }
      \cup IF s.provision
           THEN { Env("DB_USER", "value"), SecretEnv("DB_PASSWORD") }
           ELSE CredentialEnv(s, "DB_USER", "userSecret", "user")
                  \cup CredentialEnv(s, "DB_PASSWORD", "passwordSecret", "password")

PodEnvs(s) == WPEnvs(s) \cup DatabaseEnvs(s)

\* The file browser container's variables that come from a Secret.
FileBrowserEnvs(s) == { e \in { SecretEnv("FB_PASSWORD") } : FileBrowserEnabled(s) }

\* The keys of <site>-site-secret the pod cannot start without.
SiteSecretRefs(s) ==
    { e.name : e \in { v \in PodEnvs(s) \cup FileBrowserEnvs(s) : v.from = "site-secret" } }

-----------------------------------------------------------------------------
(* The pod's volume, the ports and the objects of a Site.                  *)

BuggySiteDataVolume(s) == IF s.persistence THEN "own" ELSE "emptyDir"

\* buildSiteDataVolume: the claim the pod mounts, "own" for <site>-data.
SiteDataVolume(s) ==
    IF ~s.persistence THEN "emptyDir"
    ELSE IF s.existingClaim # "none" THEN s.existingClaim
    ELSE "own"

ContainerPorts(s) == { 9000, 80 } \cup { p \in {8080} : FileBrowserEnabled(s) }
BuggyServicePorts(s) == { 80 }
ServicePorts(s)   == { 80 } \cup { p \in {8080} : FileBrowserEnabled(s) }
IngressPorts(s)   == { 80 } \cup { p \in {8080} : FileBrowserEnabled(s) }

MariaDBKinds == { "Database", "User", "Grant" }

ChildKinds == MariaDBKinds \cup
    { "Secret", "NginxConfig", "PhpConfig", "Deployment", "Service", "Ingress", "Volume" }

\* Whether a pass over spec s creates or updates the object of kind k ...
Wanted(k, s) ==
    /\ k \in MariaDBKinds => s.provision
    /\ k = "Ingress"      => s.ingress
    /\ k = "Volume"       => OwnClaim(s)

\* ... and whether it deletes the one it owns when it is not wanted.  The
\* mariadb objects are left behind.
Withdrawn(k, s) == k \in { "Ingress", "Volume" } /\ ~Wanted(k, s)

\* resolveMariaDBRef
MariaDBRefResolved(s) == s.mariadbRef \/ DefaultMariaDBRef

\* The step of kind k fails on spec s whatever the cluster holds: no MariaDB
\* cluster to target, or a path the API server rejects under pathType Prefix.
Refused(k, s) ==
    \/ k = "Database" /\ s.provision /\ ~MariaDBRefResolved(s)
    \/ k = "Ingress" /\ s.ingress /\ ~s.absolutePath

\* resource.MustParse(size) panics.
Panics(k, s) == k = "Volume" /\ OwnClaim(s) /\ ~s.parsableSize

\* The content a pass writes into the object of kind k.  The Secret is
\* missing here: its content depends on what it already holds.
DesiredData(k, s) ==
    CASE k = "NginxConfig" -> s.nginx
      [] k = "PhpConfig"   -> s.php
      [] k = "Service"     -> ServicePorts(s)
      [] k = "Ingress"     -> IngressPorts(s)
      [] k = "Deployment"  -> [ refs   |-> SiteSecretRefs(s),
                                volume |-> SiteDataVolume(s),
                                ports  |-> ContainerPorts(s),
                                nginx  |-> s.nginx,
                                php    |-> s.php ]
      [] OTHER             -> "requested"
=============================================================================
