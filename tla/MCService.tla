----------------------------- MODULE MCService -----------------------------
(***************************************************************************)
(* Configuration and kubeconfig files, requests and responses for TLC.     *)
(***************************************************************************)
EXTENDS Service, TLC

Quoted(s) == [form |-> "quoted", seconds |-> s]
Absent == [form |-> "absent"]

File(apiServer, backend, authentication, timeouts) ==
  [readable |-> TRUE, certsReadable |-> TRUE, portTaken |-> FALSE,
   apiServerURL |-> apiServer, backendURL |-> backend, auth |-> authentication,
   timeout |-> timeouts]

Auth(usesKubeConfig, caPath, certPath, keyPath) ==
  [kubeConfigPath |-> usesKubeConfig, ca |-> caPath, cert |-> certPath, key |-> keyPath]

FromKubeConfig == Auth(TRUE, "", "", "")
AnyAuth == {Auth(k, a, c, s) : k \in BOOLEAN, a \in {"", "caFile"}, c \in {"", "certFile"}, s \in {"", "keyFile"}}

Timeouts(settings) == [Part -> settings]

Plain == File("https://a", "http://pool", FromKubeConfig, [p \in Part |-> Absent])

(* Any timeouts, or any credentials, or one thing that is wrong. *)
Files ==
  {[Plain EXCEPT !.timeout = t] : t \in Timeouts({Absent, Quoted(0), Quoted(7), Quoted(-7)})}
  \cup {[Plain EXCEPT !.auth = a] : a \in AnyAuth}
  \cup {[Plain EXCEPT !.apiServerURL = u, !.backendURL = v] :
          u \in {"https://a", "", Malformed, Relative}, v \in {"http://pool", "", Malformed}}
  \cup {[Plain EXCEPT !.apiServerURL = Relative, !.auth = a] : a \in AnyAuth}
  \cup {[Plain EXCEPT !.readable = FALSE], [Plain EXCEPT !.certsReadable = FALSE],
        [Plain EXCEPT !.portTaken = TRUE]}
  \cup {[Plain EXCEPT !.timeout = t] :
          t \in Timeouts({Absent, [form |-> "illegal"], [form |-> "one digit"]})}

-----------------------------------------------------------------------------
Context(c, u) == [cluster |-> c, authInfo |-> u]
User(certData, keyData) == [cert |-> certData, key |-> keyData]

(* Clusters a1 and a2 have the same server, b another one. *)
Clusters ==
  [a1 |-> [server |-> "https://a", ca |-> "a1CA"], a2 |-> [server |-> "https://a", ca |-> "a2CA"],
   b |-> [server |-> "https://b", ca |-> "bCA"]]

Load(clusterMap, contextMap, userMap) ==
  [readable |-> TRUE, clusters |-> clusterMap, contexts |-> contextMap, authInfos |-> userMap]

OneCluster == [a1 |-> Clusters.a1, b |-> Clusters.b]
Users == [u |-> User("uCert", "uKey"), v |-> User("vCert", "vKey")]

Simple == Load(OneCluster, [x |-> Context("a1", "u")], Users)

(* What can be found leads somewhere, to nothing, or either way. *)
KubeConfigs ==
  {Load(OneCluster, [x |-> Context("a1", "u"), y |-> Context("a1", "v"), z |-> Context("b", "v")], Users),
   Load(Clusters, [x |-> Context("a1", "u"), y |-> Context("a2", "v"), z |-> Context("b", "u")], Users),
   Load(OneCluster, [x |-> Context("b", "u")], Users),
   Load(OneCluster, [x |-> Context("a1", "")], Users),
   Load(OneCluster, [x |-> Context("a1", "w")], Users),
   Load([b |-> Clusters.b], [x |-> Context("b", "u")], Users),
   Load(OneCluster, [x |-> Context("a1", "u")], [u |-> User("uCert", "")]),
   Load(OneCluster, [x |-> Context("a1", "u")], [u |-> User("", "")]),
   Load(Clusters, [x |-> Context("a1", "u")], Users),
   Load(OneCluster, [x |-> Context("a1", "u"), y |-> Context("a1", "w")], Users),
   [readable |-> FALSE]}

Configurations ==
  [file : Files, kubeConfig : {Simple}] \cup [file : {Plain}, kubeConfig : KubeConfigs]

-----------------------------------------------------------------------------
Requests ==
  [caller : {"client"}, method : {"GET", "POST"}, resource : {"size", "terminate", "pool"},
   form : {"plain", "doubled", "slash"}]
  \cup [caller : {"proxy"}, method : {"GET", "POST"}, resource : {"size", "terminate", "pool"},
        form : {"plain"}]

(* Bodies shorter than, as long as and longer than an error message. *)
Responses == [status : {200, 404, 502}, length : 0..4, chunked : BOOLEAN]
=============================================================================
