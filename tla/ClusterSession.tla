----------------------------- MODULE ClusterSession -----------------------------
(***************************************************************************)
(* How one service command finds out where to send its request, and with   *)
(* which token: GetBaseURI and GetAPIVersion in GetClient, then            *)
(* HandleToken, SetToken and CheckToken, then the request.  What the user  *)
(* gives (configuration, flags, environment) is chosen in Init.            *)
(***************************************************************************)
EXTENDS Naturals

CONSTANTS
  Absolute,     \* URIs proto://host[:port][/path]
  Hostless,     \* with a scheme and no host, such as https:///path
  Opaque,       \* with a scheme and no slash, such as mailto:x
  Relative,     \* a path
  Unusable,     \* what url.Parse refuses, or parses to no scheme and no path
  NoURI,
  DefaultPath,  \* the base path of the service, such as /hsm/v2
  Versions,     \* API versions
  NoVersion,
  Tokens,       \* access tokens
  Valid,        \* the ones jwt.Parse accepts
  NoToken,
  Vars,         \* environment variables *_ACCESS_TOKEN
  EnvVar,       \* [names -> Vars]: upper case, - and space become _
  NoName,
  Configs,      \* the configurations, flags and environments to consider
  FlagSets,
  Envs

VARIABLES
  config,   \* GlobalConfig: the default cluster and the section of each cluster
  flags,    \* command line
  env,      \* [Vars -> Tokens \cup {NoToken}]
  kind,     \* "handle": calls HandleToken; "direct": SetToken and CheckToken
            \* themselves; "public": sends no token
  pc,
  base,     \* the base URI of the client
  version,  \* its API version
  token     \* the token (cobra binds --token to it)

inputs == <<config, flags, env, kind>>
vars == <<config, flags, env, kind, pc, base, version, token>>

URIs == Absolute \cup Hostless \cup Opaque \cup Relative \cup Unusable
Names == DOMAIN EnvVar
Section == [uri : URIs \cup {NoURI}, svc : URIs \cup {NoURI},
            version : Versions \cup {NoVersion}, auth : BOOLEAN]
Config == [default : Names \cup {NoName},
           clusters : UNION {[S -> Section] : S \in SUBSET Names}]
FlagSet == [cluster : Names \cup {NoName}, clusterURI : URIs \cup {NoURI},
            uri : URIs \cup {NoURI}, version : Versions \cup {NoVersion},
            token : Tokens \cup {NoToken}, noToken : BOOLEAN]

(***************************************************************************)
(* cobra refuses --cluster with --cluster-uri and --token with --no-token. *)
(***************************************************************************)
Exclusive(f) ==
  /\ f.cluster = NoName \/ f.clusterURI = NoURI
  /\ f.token = NoToken \/ ~f.noToken

ASSUME InputAssumption ==
  /\ Configs \subseteq Config
  /\ FlagSets \subseteq FlagSet /\ \A f \in FlagSets : Exclusive(f)
  /\ Envs \subseteq [Vars -> Tokens \cup {NoToken}]
  /\ EnvVar \in [Names -> Vars]
  /\ Valid \subseteq Tokens /\ NoToken \notin Tokens
  /\ NoURI \notin URIs /\ NoName \notin Names /\ DefaultPath \in Relative

-----------------------------------------------------------------------------
(* Base URI *)

Known == DOMAIN config.clusters
NoSection == [uri |-> NoURI, svc |-> NoURI, version |-> NoVersion, auth |-> FALSE]
SectionOf(n) == IF n \in Known THEN config.clusters[n] ELSE NoSection

(***************************************************************************)
(* GetBaseURI and GetAPIVersion look at default-cluster first and at       *)
(* --cluster only when there is none.                                      *)
(***************************************************************************)
ClusterToUse == IF config.default # NoName THEN config.default ELSE flags.cluster

(***************************************************************************)
(* --cluster-uri and --uri override the section; only URIs are merged.     *)
(***************************************************************************)
MergeURIConfig(sec) ==
  [NoSection EXCEPT !.uri = IF flags.clusterURI # NoURI THEN flags.clusterURI ELSE sec.uri,
                    !.svc = IF flags.uri # NoURI THEN flags.uri ELSE sec.svc]

NoBase == [host |-> NoURI, path |-> NoURI]

GetServiceBaseURI_Fault(sec) ==  \* seeded fault
  LET svc == IF sec.svc # NoURI THEN sec.svc ELSE DefaultPath
  IN  IF sec.uri \notin Absolute \cup {NoURI} THEN NoBase
      ELSE IF svc \in Relative
           THEN IF sec.uri # NoURI THEN [host |-> sec.uri, path |-> svc] ELSE NoBase
           ELSE [host |-> svc, path |-> NoURI]

(***************************************************************************)
(* An absolute URI of the service stands for itself; a path is joined to   *)
(* the URI of the cluster.  NoBase stands for every error.                 *)
(***************************************************************************)
GetServiceBaseURI(sec) ==
  LET svc == IF sec.svc # NoURI THEN sec.svc ELSE DefaultPath
  IN  IF sec.uri \notin Absolute \cup {NoURI} THEN NoBase
      ELSE IF svc \in Absolute \cup Hostless THEN [host |-> svc, path |-> NoURI]
      ELSE IF svc \in Relative /\ sec.uri # NoURI THEN [host |-> sec.uri, path |-> svc]
      ELSE NoBase

BaseOf(n) == GetServiceBaseURI(MergeURIConfig(SectionOf(n)))

-----------------------------------------------------------------------------
(* Token *)

(***************************************************************************)
(* HandleToken and SetToken look at --cluster first.                       *)
(***************************************************************************)
TokenCluster == IF flags.cluster # NoName THEN flags.cluster ELSE config.default

-----------------------------------------------------------------------------
(* The command *)

Init ==
  /\ config \in Configs /\ flags \in FlagSets /\ env \in Envs
  /\ kind \in {"handle", "direct", "public"}
  /\ pc = "uri"
  /\ base = NoBase
  /\ version = NoVersion
  /\ token = flags.token

Goto(l) == pc' = l /\ UNCHANGED inputs
Exit == Goto("exit") /\ UNCHANGED <<base, version, token>>

GetBaseURI_Fault ==  \* seeded fault
  LET uri == BaseOf(IF ClusterToUse \in Known THEN ClusterToUse ELSE NoName)
  IN  /\ pc = "uri"
      /\ IF uri = NoBase THEN Exit
         ELSE base' = uri /\ Goto("version") /\ UNCHANGED <<version, token>>

(***************************************************************************)
(* A cluster that is not in the configuration, or has no usable URI, is    *)
(* the end.                                                                *)
(***************************************************************************)
GetBaseURI ==
  /\ pc = "uri"
  /\ IF ClusterToUse \notin Known \cup {NoName} \/ BaseOf(ClusterToUse) = NoBase
     THEN Exit
     ELSE /\ base' = BaseOf(ClusterToUse)
          /\ Goto("version")
          /\ UNCHANGED <<version, token>>

GetAPIVersion_Fault ==  \* seeded fault
  /\ pc = "version"
  /\ version' = IF flags.version # NoVersion THEN flags.version
                ELSE IF TokenCluster \in Known \cup {NoName} THEN SectionOf(TokenCluster).version
                ELSE NoVersion
  /\ Goto("handle")
  /\ UNCHANGED <<base, token>>

(***************************************************************************)
(* Only the clients of boot-service and metadata-service use the version.  *)
(***************************************************************************)
GetAPIVersion ==
  /\ pc = "version"
  /\ version' = IF flags.version # NoVersion THEN flags.version
                ELSE SectionOf(ClusterToUse).version
  /\ Goto("handle")
  /\ UNCHANGED <<base, token>>

(***************************************************************************)
(* No cluster, or a cluster without authentication: no token is read.  An  *)
(* unknown cluster is fatal: errors.Is compares the error, which holds the *)
(* name, with one that holds none.                                         *)
(***************************************************************************)
HandleToken ==
  /\ pc = "handle"
  /\ \/ kind = "direct" /\ Goto("setToken")
     \/ kind = "public" /\ Goto("send")
     \/ /\ kind = "handle"
        /\ IF flags.noToken \/ TokenCluster = NoName THEN Goto("send")
           ELSE IF TokenCluster \notin Known THEN Goto("exit")
           ELSE Goto(IF config.clusters[TokenCluster].auth THEN "setToken" ELSE "send")
  /\ UNCHANGED <<base, version, token>>

SetToken ==
  /\ pc = "setToken"
  /\ \/ flags.token # NoToken /\ Goto("checkToken") /\ UNCHANGED <<base, version, token>>
     \/ /\ flags.token = NoToken
        /\ IF TokenCluster = NoName \/ env[EnvVar[TokenCluster]] = NoToken THEN Exit
           ELSE /\ token' = env[EnvVar[TokenCluster]]
                /\ Goto("checkToken")
                /\ UNCHANGED <<base, version>>

CheckToken_Fault ==  \* seeded fault
  /\ pc = "checkToken"
  /\ IF token = NoToken THEN Goto("exit") ELSE Goto("send")
  /\ UNCHANGED <<base, version, token>>

CheckToken ==
  /\ pc = "checkToken"
  /\ IF token \in Valid THEN Goto("send") ELSE Goto("exit")
  /\ UNCHANGED <<base, version, token>>

(***************************************************************************)
(* The client adds the token to the request headers if there is one.       *)
(***************************************************************************)
Send ==
  /\ pc = "send"
  /\ token' = IF kind = "public" THEN NoToken ELSE token
  /\ Goto("sent")
  /\ UNCHANGED <<base, version>>

Done == pc \in {"sent", "exit"} /\ UNCHANGED vars

Next ==
  \/ GetBaseURI \/ GetAPIVersion \/ HandleToken \/ SetToken \/ CheckToken \/ Send
  \/ Done

Spec == Init /\ [][Next]_vars

-----------------------------------------------------------------------------
(* Properties *)

(***************************************************************************)
(* The variables keep their types.                                         *)
(***************************************************************************)
TypeOK ==
  /\ config \in Configs /\ flags \in FlagSets /\ env \in Envs
  /\ kind \in {"handle", "direct", "public"}
  /\ pc \in {"uri", "version", "handle", "setToken", "checkToken", "send", "sent", "exit"}
  /\ base \in [host : Absolute \cup Hostless \cup {NoURI}, path : Relative \cup {NoURI}]
  /\ version \in Versions \cup {NoVersion}
  /\ token \in Tokens \cup {NoToken}

FromEnv == kind # "public" /\ flags.token = NoToken /\ token # NoToken
Clash == config.default # NoName /\ flags.cluster \notin {NoName, config.default}

(***************************************************************************)
(* A token read from the environment is the token of the cluster whose URI *)
(* (or the URI the command line puts in its place) the request goes to,    *)
(* unless --cluster names another cluster than default-cluster.  URI and   *)
(* token are resolved by two functions that choose the cluster each in its *)
(* own way.                                                                *)
(***************************************************************************)
TokenMatchesCluster ==
  pc = "sent" /\ FromEnv /\ ~Clash =>
    \E n \in Known : base = BaseOf(n) /\ token = env[EnvVar[n]]

Asks(n) == n \in Known /\ config.clusters[n].auth

(***************************************************************************)
(* A request to a cluster that asks for authentication carries a token     *)
(* that has been checked, unless --no-token; and so does a request for     *)
(* which --cluster names such a cluster.  The cluster it goes to is        *)
(* ClusterToUse.  The only way around the first is that --cluster names    *)
(* another cluster, which does not ask: CheckToken is then left out for    *)
(* the wrong cluster.                                                      *)
(***************************************************************************)
AuthIsEnforced ==
  pc = "sent" /\ kind = "handle" /\ ~flags.noToken =>
    /\ Asks(ClusterToUse) => token \in Valid \/ (Clash /\ ~Asks(flags.cluster))
    /\ Asks(TokenCluster) => token \in Valid

(***************************************************************************)
(* The API version and the base URI of a client come from one cluster,     *)
(* whatever cluster that is.                                               *)
(***************************************************************************)
VersionMatchesBase ==
  pc = "sent" =>
    \E n \in Known \cup {NoName} :
      /\ base = BaseOf(n)
      /\ version = IF flags.version # NoVersion THEN flags.version ELSE SectionOf(n).version
=============================================================================
