------------------------------ MODULE Startup ------------------------------
(***************************************************************************)
(* From main (cmd/kubeaware-cloudpool-proxy/main.go) to a server that      *)
(* listens: the configuration is parsed, validated and completed with      *)
(* defaults (pkg/config/proxy_config.go), and the clients are made from it *)
(* (NewClient, NewKubeClient, NewServer), with credentials that may have   *)
(* to be looked up in a kubeconfig file, whose maps Go iterates over in    *)
(* any order.                                                              *)
(***************************************************************************)
EXTENDS Integers

CONSTANTS
  Configuration, \* records with a configuration file (and what surrounds it)
                 \* and a kubeconfig file, which has the functions clusters
                 \* (to server and ca), contexts (to cluster and authInfo)
                 \* and authInfos (to cert and key)
  Malformed,     \* a URL that does not parse
  Relative       \* one that does, but has a path without a scheme and a host

VARIABLES
  phase,      \* what main does next; "serving", "exited" and "panic" are final
  file,       \* the configuration file
  kubeConfig, \* the kubeconfig file
  timeout,    \* the timeouts of ProxyConfig, then of the clients and the server
  cluster,    \* the cluster found in the kubeconfig, and
  user,       \* the user found for it
  tlsConfig   \* the credentials of the Kubernetes client: names of certificates

startupVars == <<phase, file, kubeConfig, timeout, cluster, user, tlsConfig>>
found == <<cluster, user, tlsConfig>>

Missing == ""
Part == {"server", "apiServer", "backend"}
Default == [server |-> 60, apiServer |-> 60, backend |-> 300]

(* What a file can have for a timeout: nothing, a quoted duration, or      *)
(* something that UnmarshalJSON does not parse.                            *)
ASSUME ConfigurationAssumption ==
  \A c \in Configuration : \A p \in Part :
    \/ c.file.timeout[p].form \in {"absent", "illegal", "one digit"}
    \/ c.file.timeout[p].form = "quoted" /\ c.file.timeout[p].seconds \in Int

StartupInit ==
  /\ phase = "readConfig"
  /\ \E c \in Configuration : file = c.file /\ kubeConfig = c.kubeConfig
  /\ timeout = [p \in Part |-> 0]
  /\ cluster = Missing
  /\ user = Missing
  /\ tlsConfig = [ca |-> Missing, cert |-> Missing, key |-> Missing]

(* glog.Exitf, on every error. *)
Exit == phase' = "exited" /\ UNCHANGED <<timeout, found>>

-----------------------------------------------------------------------------
(* The configuration.                                                      *)

ReadConfig ==
  /\ phase = "readConfig"
  /\ IF file.readable THEN phase' = "unmarshal" /\ UNCHANGED <<timeout, found>> ELSE Exit

(* Duration.UnmarshalJSON drops the first and the last character, which    *)
(* should be quotes, and parses the rest.  With a number of one digit the  *)
(* slice is out of bounds, and json passes this panic on.  An absent field *)
(* stays 0.                                                                *)
Unmarshal ==
  LET some(form) == \E p \in Part : file.timeout[p].form = form
  IN  /\ phase = "unmarshal"
      /\ \/ some("one digit") /\ phase' = "panic" /\ UNCHANGED <<timeout, found>>
         \/ some("illegal") /\ Exit
         \/ /\ ~some("one digit") /\ ~some("illegal")
            /\ timeout' = [p \in Part |-> IF file.timeout[p].form = "absent" THEN 0
                                          ELSE file.timeout[p].seconds]
            /\ phase' = "validate"
            /\ UNCHANGED found

ValidURL(url) == url \notin {Missing, Malformed}

(* Mutant of ValidAuth: a kubeconfig does not make up for the others. *)
ValidCertificates(auth) == auth.cert # Missing /\ auth.key # Missing /\ auth.ca # Missing

ValidAuth(auth) ==
  auth.kubeConfigPath \/ (auth.cert # Missing /\ auth.key # Missing /\ auth.ca # Missing)

ValidAPIServer == ValidURL(file.apiServerURL) /\ ValidAuth(file.auth)

(* ProxyConfig.Validate: timeouts are not looked at. *)
Validate ==
  /\ phase = "validate"
  /\ IF ValidAPIServer /\ ValidURL(file.backendURL)
     THEN phase' = "defaults" /\ UNCHANGED <<timeout, found>>
     ELSE Exit

(* Mutant of populateDefaults: the API server's timeout is forgotten. *)
populateTwoDefaults ==
  [p \in Part |-> IF timeout[p] = 0 /\ p # "apiServer" THEN Default[p] ELSE timeout[p]]

populateDefaults == [p \in Part |-> IF timeout[p] = 0 THEN Default[p] ELSE timeout[p]]

Defaults ==
  /\ phase = "defaults"
  /\ timeout' = populateDefaults
  /\ phase' = "newClient"
  /\ UNCHANGED found

-----------------------------------------------------------------------------
(* The clients and the server.                                             *)

(* Mutant of PositiveOrDefault: only a timeout of zero is replaced. *)
NonzeroOrDefault(part) == [timeout EXCEPT ![part] = IF @ = 0 THEN Default[part] ELSE @]

PositiveOrDefault(part) == [timeout EXCEPT ![part] = IF @ <= 0 THEN Default[part] ELSE @]

NewClient ==
  /\ phase = "newClient"
  /\ timeout' = PositiveOrDefault("backend")
  /\ phase' = "newKubeClient"
  /\ UNCHANGED found

(* The configured certificates, or those of the kubeconfig. *)
NewKubeClient ==
  /\ phase = "newKubeClient"
  /\ \/ /\ ~file.auth.kubeConfigPath
        /\ tlsConfig' = [ca |-> file.auth.ca, cert |-> file.auth.cert, key |-> file.auth.key]
        /\ phase' = "newForConfig"
        /\ UNCHANGED <<timeout, cluster, user>>
     \/ file.auth.kubeConfigPath /\ kubeConfig.readable /\ phase' = "findCluster" /\ UNCHANGED <<timeout, found>>
     \/ file.auth.kubeConfigPath /\ ~kubeConfig.readable /\ Exit

ClustersAt(url) == {c \in DOMAIN kubeConfig.clusters : kubeConfig.clusters[c].server = url}

(* tlsClientConfigFromKubeConfig: the first cluster with the server's URL, *)
(* in whatever order the map is iterated over.                             *)
FindCluster ==
  /\ phase = "findCluster"
  /\ \/ \E c \in ClustersAt(file.apiServerURL) :
          /\ cluster' = c
          /\ tlsConfig' = [tlsConfig EXCEPT !.ca = kubeConfig.clusters[c].ca]
          /\ phase' = "findContext"
          /\ UNCHANGED <<timeout, user>>
     \/ ClustersAt(file.apiServerURL) = {} /\ Exit

(* Mutant of ContextsOf: contexts of other clusters are taken as well. *)
AllContexts(c) == DOMAIN kubeConfig.contexts

ContextsOf(c) == {x \in DOMAIN kubeConfig.contexts : kubeConfig.contexts[x].cluster = c}

(* The user of the last context of that cluster, again in any order. *)
FindContext ==
  /\ phase = "findContext"
  /\ \/ \E x \in ContextsOf(cluster) :
          /\ kubeConfig.contexts[x].authInfo # Missing
          /\ user' = kubeConfig.contexts[x].authInfo
          /\ phase' = "findUser"
          /\ UNCHANGED <<timeout, cluster, tlsConfig>>
     \/ (\E x \in ContextsOf(cluster) : kubeConfig.contexts[x].authInfo = Missing) /\ Exit
     \/ ContextsOf(cluster) = {} /\ Exit

FindUser ==
  /\ phase = "findUser"
  /\ \/ /\ user \in DOMAIN kubeConfig.authInfos
        /\ tlsConfig' = [tlsConfig EXCEPT !.cert = kubeConfig.authInfos[user].cert,
                                          !.key = kubeConfig.authInfos[user].key]
        /\ phase' = "newForConfig"
        /\ UNCHANGED <<timeout, cluster, user>>
     \/ user \notin DOMAIN kubeConfig.authInfos /\ Exit

(* NewForConfig of client-go loads the certificates and pairs the client's *)
(* certificate, if there is one, with its key.                             *)
CertificatesLoad == file.certsReadable /\ (tlsConfig.cert # Missing => tlsConfig.key # Missing)

(* It completes a URL without a scheme, but not if there is a path. *)
DefaultServerURL == file.apiServerURL # Relative

(* The end of NewKubeClient, which takes the timeout as it is. *)
NewForConfig ==
  /\ phase = "newForConfig"
  /\ IF DefaultServerURL /\ CertificatesLoad THEN phase' = "newServer" /\ UNCHANGED <<timeout, found>> ELSE Exit

(* NewServer, and ListenAndServe, which fails if the port is taken. *)
NewServer ==
  /\ phase = "newServer"
  /\ \/ /\ ~file.portTaken
        /\ timeout' = PositiveOrDefault("server")
        /\ phase' = "serving"
        /\ UNCHANGED found
     \/ file.portTaken /\ Exit

Main ==
  /\ \/ ReadConfig \/ Unmarshal \/ Validate \/ Defaults \/ NewClient \/ NewKubeClient
     \/ FindCluster \/ FindContext \/ FindUser \/ NewForConfig \/ NewServer
  /\ UNCHANGED <<file, kubeConfig>>

-----------------------------------------------------------------------------
(* Properties.                                                             *)

(* The credentials that belong together: the configured ones, or, if the   *)
(* kubeconfig is used, those of a cluster with the URL and of a user that  *)
(* some context pairs with it.                                             *)
Pairings ==
  {x \in DOMAIN kubeConfig.contexts :
     /\ kubeConfig.contexts[x].cluster \in ClustersAt(file.apiServerURL)
     /\ kubeConfig.contexts[x].authInfo \in DOMAIN kubeConfig.authInfos \ {Missing}}

Credentials ==
  IF ~file.auth.kubeConfigPath
  THEN {[ca |-> file.auth.ca, cert |-> file.auth.cert, key |-> file.auth.key]}
  ELSE {[ca   |-> kubeConfig.clusters[kubeConfig.contexts[x].cluster].ca,
         cert |-> kubeConfig.authInfos[kubeConfig.contexts[x].authInfo].cert,
         key  |-> kubeConfig.authInfos[kubeConfig.contexts[x].authInfo].key] : x \in Pairings}

(* Entries of the kubeconfig with the URL that lead nowhere: a cluster     *)
(* without a context, a context without a user, a user with half a pair.   *)
DeadEnds ==
  {c \in ClustersAt(file.apiServerURL) :
     \A x \in DOMAIN kubeConfig.contexts : kubeConfig.contexts[x].cluster # c}
  \cup {x \in DOMAIN kubeConfig.contexts :
          /\ kubeConfig.contexts[x].cluster \in ClustersAt(file.apiServerURL)
          /\ \/ x \notin Pairings
             \/ LET u == kubeConfig.authInfos[kubeConfig.contexts[x].authInfo]
                IN  u.cert # Missing /\ u.key = Missing}

(* A proxy that serves talks to the API server with a CA certificate, a    *)
(* client certificate and a key that belong together, in whatever order    *)
(* tlsClientConfigFromKubeConfig comes across them.  (A user who has a     *)
(* token instead has neither, and the proxy serves all the same.)          *)
CredentialsBelongTogether == phase = "serving" => tlsConfig \in Credentials

(* The proxy gives up only for a reason that its configuration or its      *)
(* surroundings give.  It is not enough that the kubeconfig has "cluster   *)
(* credentials for a cluster with an API server with the specified url"    *)
(* (README): an entry with that URL that leads nowhere may be come across  *)
(* first, and is a reason too.                                             *)
ExitHasAReason ==
  phase = "exited" =>
    \/ ~file.readable \/ file.portTaken \/ ~file.certsReadable
    \/ \E p \in Part : file.timeout[p].form = "illegal"
    \/ {file.apiServerURL, file.backendURL} \cap {Missing, Malformed} # {}
    \/ file.apiServerURL = Relative
    \/ ~file.auth.kubeConfigPath /\ Missing \in {file.auth.ca, file.auth.cert, file.auth.key}
    \/ /\ file.auth.kubeConfigPath
       /\ ~kubeConfig.readable \/ ClustersAt(file.apiServerURL) = {} \/ DeadEnds # {}

(* The two clients of a serving proxy have a timeout for their calls, and  *)
(* its server has one for reading a request: the configured or the default *)
(* one.  Only the client of the API server takes a negative one as it is,  *)
(* for none.  (Writing to a client has no timeout: see ExchangesEnd.)      *)
TimeoutsAreSet ==
  phase = "serving" =>
    \A p \in Part : timeout[p] > 0 \/ (p = "apiServer" /\ file.timeout[p].form = "quoted"
                                                      /\ file.timeout[p].seconds < 0)
=============================================================================
