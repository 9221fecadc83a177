---------------------------- MODULE ServiceProofs ----------------------------
(***************************************************************************)
(* What the start of the proxy and its exchanges with the backend          *)
(* guarantee, for every configuration, every kubeconfig, every request and *)
(* bodies of every length.                                                 *)
(***************************************************************************)
EXTENDS Service, TLAPS

-----------------------------------------------------------------------------
(* Startup: the timeouts.                                                  *)

(* The phases from each point of main on. *)
AfterUnmarshal == {"validate", "defaults"}
AfterNewClient == {"newKubeClient", "findCluster", "findContext", "findUser", "newForConfig",
                   "newServer", "serving"}
AfterDefaults == {"newClient"} \cup AfterNewClient

(* A timeout that no default has replaced is the one of the file. *)
IsConfigured(p) ==
  file.timeout[p].form = "quoted" /\ file.timeout[p].seconds = timeout[p]

TimeoutsFit ==
  /\ timeout \in [Part -> Int]
  /\ \A p \in Part : \/ file.timeout[p].form \in {"absent", "illegal", "one digit"}
                     \/ file.timeout[p].form = "quoted" /\ file.timeout[p].seconds \in Int
  /\ phase \in AfterUnmarshal => \A p \in Part : timeout[p] = 0 \/ IsConfigured(p)
  /\ phase \in AfterDefaults => \A p \in Part : timeout[p] > 0 \/ (timeout[p] < 0 /\ IsConfigured(p))
  /\ phase \in AfterNewClient => timeout["backend"] > 0
  /\ phase = "serving" => timeout["server"] > 0

(* NewClient and NewServer make the timeout of their part positive. *)
LEMMA MadePositive ==
  ASSUME NEW part \in Part, timeout \in [Part -> Int], timeout' = PositiveOrDefault(part)
  PROVE  /\ timeout' \in [Part -> Int] /\ timeout'[part] > 0
         /\ \A p \in Part \ {part} : timeout'[p] = timeout[p]
<1>1. Default[part] \in Int /\ Default[part] > 0
  BY DEF Default, Part
<1> DEFINE v == IF timeout[part] <= 0 THEN Default[part] ELSE timeout[part]
<1>2. v \in Int /\ v > 0
  BY <1>1
<1>3. timeout' = [timeout EXCEPT ![part] = v]
  BY DEF PositiveOrDefault
<1> HIDE DEF v
<1> QED
  BY <1>2, <1>3

(* main and NewServer keep this: populateDefaults replaces every zero, and *)
(* the backend's client and the server replace what is negative.           *)
LEMMA MainTimeouts ==
  ASSUME TimeoutsFit, Main PROVE TimeoutsFit'
<1> USE DEF Part, AfterUnmarshal, AfterDefaults, AfterNewClient
<1>0. /\ UNCHANGED <<file, kubeConfig>>
      /\ \A p \in Part : IsConfigured(p)' <=> /\ file.timeout[p].form = "quoted"
                                              /\ file.timeout[p].seconds = timeout'[p]
  BY DEF Main, IsConfigured
<1>1. ASSUME timeout' = timeout,
             \/ phase' \in {"exited", "panic", "unmarshal"}
             \/ phase' \in AfterUnmarshal /\ phase \in AfterUnmarshal
             \/ phase' \in AfterNewClient \ {"serving"} /\ phase \in AfterNewClient
      PROVE  TimeoutsFit'
  BY <1>0, <1>1, Zenon DEF TimeoutsFit, IsConfigured
<1>2. CASE ReadConfig \/ Validate \/ NewKubeClient \/ FindCluster \/ FindContext \/ FindUser
           \/ NewForConfig
  <2>1. CASE ReadConfig
    BY <1>1, <2>1 DEF ReadConfig, Exit
  <2>2. CASE Validate
    <3>1. timeout' = timeout /\ phase' \in {"defaults", "exited"} /\ phase = "validate"
      BY <2>2 DEF Validate, Exit
    <3> QED
      BY <1>0, <1>1, <3>1
  <2>3. CASE NewKubeClient
    BY <1>1, <2>3 DEF NewKubeClient, Exit
  <2>4. CASE FindCluster \/ FindContext \/ FindUser \/ NewForConfig
    BY <1>1, <2>4 DEF FindCluster, FindContext, FindUser, NewForConfig, Exit
  <2> QED
    BY <1>2, <2>1, <2>2, <2>3, <2>4
<1>3. CASE Unmarshal
  <2>1. CASE phase' \in {"panic", "exited"} /\ timeout' = timeout
    BY <1>1, <2>1
  <2>2. CASE /\ timeout' = [p \in Part |-> IF file.timeout[p].form = "absent" THEN 0
                                           ELSE file.timeout[p].seconds]
             /\ \A p \in Part : file.timeout[p].form \notin {"one digit", "illegal"}
             /\ phase' = "validate"
    <3>1. \A p \in Part : timeout'[p] \in Int /\ (timeout'[p] = 0 \/ IsConfigured(p)')
      <4> SUFFICES ASSUME NEW p \in Part
                   PROVE  timeout'[p] \in Int /\ (timeout'[p] = 0 \/ IsConfigured(p)')
        OBVIOUS
      <4>1. timeout'[p] = IF file.timeout[p].form = "absent" THEN 0 ELSE file.timeout[p].seconds
        BY <2>2, Zenon
      <4>2. \/ file.timeout[p].form = "absent"
            \/ file.timeout[p].form = "quoted" /\ file.timeout[p].seconds \in Int
        BY <2>2, Zenon DEF TimeoutsFit
      <4> QED
        BY <1>0, <4>1, <4>2
    <3>2. timeout' \in [Part -> Int]
      BY <2>2, <3>1, Zenon
    <3> QED
      BY <1>0, <2>2, <3>1, <3>2, Zenon DEF TimeoutsFit
  <2> QED
    BY <1>3, <2>1, <2>2, Zenon DEF Unmarshal, Exit
<1>4. CASE Defaults
  <2>1. /\ phase = "defaults" /\ phase' = "newClient"
        /\ timeout' = [p \in Part |-> IF timeout[p] = 0 THEN Default[p] ELSE timeout[p]]
    BY <1>4 DEF Defaults, populateDefaults
  <2>2. \A p \in Part : Default[p] \in Int /\ Default[p] > 0
    BY DEF Default
  <2>3. \A p \in Part : timeout'[p] > 0 \/ (timeout'[p] < 0 /\ IsConfigured(p)')
    <3> SUFFICES ASSUME NEW p \in Part
                 PROVE  timeout'[p] > 0 \/ (timeout'[p] < 0 /\ IsConfigured(p)')
      OBVIOUS
    <3>1. timeout[p] \in Int /\ (timeout[p] = 0 \/ IsConfigured(p))
      BY <2>1, Zenon DEF TimeoutsFit
    <3>2. timeout'[p] = IF timeout[p] = 0 THEN Default[p] ELSE timeout[p]
      BY <2>1
    <3> QED
      BY <1>0, <2>2, <3>1, <3>2 DEF IsConfigured
  <2> QED
    BY <1>0, <2>1, <2>2, <2>3, Zenon DEF TimeoutsFit
<1>5. CASE NewClient
  <2>1. phase = "newClient" /\ phase' = "newKubeClient" /\ timeout' = PositiveOrDefault("backend")
    BY <1>5 DEF NewClient
  <2>2. /\ timeout' \in [Part -> Int] /\ timeout'["backend"] > 0
        /\ \A p \in Part \ {"backend"} : timeout'[p] = timeout[p]
    BY <2>1, MadePositive, Zenon DEF TimeoutsFit
  <2> QED
    BY <1>0, <2>1, <2>2, Zenon DEF TimeoutsFit, IsConfigured
<1>6. CASE NewServer
  <2>1. CASE phase' = "exited" /\ timeout' = timeout
    BY <1>1, <2>1
  <2>2. CASE phase = "newServer" /\ phase' = "serving" /\ timeout' = PositiveOrDefault("server")
    <3>1. /\ timeout' \in [Part -> Int] /\ timeout'["server"] > 0
          /\ \A p \in Part \ {"server"} : timeout'[p] = timeout[p]
      BY <2>2, MadePositive, Zenon DEF TimeoutsFit
    <3> QED
      BY <1>0, <2>2, <3>1, Zenon DEF TimeoutsFit, IsConfigured
  <2> QED
    BY <1>6, <2>1, <2>2 DEF NewServer, Exit
<1> QED
  BY <1>2, <1>3, <1>4, <1>5, <1>6 DEF Main

-----------------------------------------------------------------------------
(* Startup: the credentials.                                               *)

FindingPhase == {"findCluster", "findContext", "findUser"}
FirstPhase == {"readConfig", "unmarshal", "validate", "defaults", "newClient", "newKubeClient"}

(* What tlsClientConfigFromKubeConfig has put together so far belongs      *)
(* together, and whatever is missing then is a reason to exit.             *)
CredentialsFit ==
  /\ phase \in FirstPhase \cup {"findCluster"} =>
       tlsConfig = [ca |-> Missing, cert |-> Missing, key |-> Missing]
  /\ phase \in FindingPhase => file.auth.kubeConfigPath
  /\ phase \in {"findContext", "findUser"} =>
       /\ cluster \in ClustersAt(file.apiServerURL)
       /\ tlsConfig = [ca |-> kubeConfig.clusters[cluster].ca, cert |-> Missing, key |-> Missing]
  /\ phase = "findUser" =>
       user # Missing /\ \E x \in ContextsOf(cluster) : kubeConfig.contexts[x].authInfo = user
  /\ phase \in {"newForConfig", "newServer", "serving"} => tlsConfig \in Credentials
  /\ ExitHasAReason

(* Every step of main keeps this. *)
LEMMA MainCredentials ==
  ASSUME CredentialsFit, Main PROVE CredentialsFit'
<1> USE DEF FindingPhase, FirstPhase
<1>1. file' = file /\ kubeConfig' = kubeConfig
  BY DEF Main
<1>2. /\ Credentials' = Credentials /\ ClustersAt(file.apiServerURL)' = ClustersAt(file.apiServerURL)
      /\ DeadEnds' = DeadEnds
      /\ \A c : {x \in DOMAIN kubeConfig'.contexts : kubeConfig'.contexts[x].cluster = c} = ContextsOf(c)
  BY <1>1 DEF Credentials, ClustersAt, DeadEnds, Pairings, ContextsOf
<1>3. ASSUME phase' \in FirstPhase, phase \in FirstPhase, UNCHANGED found
      PROVE  CredentialsFit'
  BY <1>3 DEF CredentialsFit, found, ExitHasAReason
<1>4. ASSUME phase' = "exited",
             \/ ~file.readable \/ file.portTaken \/ ~file.certsReadable
             \/ \E p \in Part : file.timeout[p].form = "illegal"
             \/ {file.apiServerURL, file.backendURL} \cap {Missing, Malformed} # {}
             \/ file.apiServerURL = Relative
             \/ ~file.auth.kubeConfigPath /\ Missing \in {file.auth.ca, file.auth.cert, file.auth.key}
             \/ /\ file.auth.kubeConfigPath
                /\ ~kubeConfig.readable \/ ClustersAt(file.apiServerURL) = {} \/ DeadEnds # {}
      PROVE  CredentialsFit'
  BY <1>1, <1>2, <1>4 DEF CredentialsFit, ExitHasAReason
<1>5. CASE ReadConfig
  BY <1>3, <1>4, <1>5 DEF ReadConfig, Exit
<1>6. CASE Unmarshal
  <2>1. CASE phase' = "panic"
    BY <2>1 DEF CredentialsFit, ExitHasAReason
  <2>2. CASE (\E p \in Part : file.timeout[p].form = "illegal") /\ Exit
    BY <1>4, <2>2 DEF Exit
  <2>3. CASE phase = "unmarshal" /\ phase' = "validate" /\ UNCHANGED found
    BY <1>3, <2>3
  <2> QED
    BY <1>6, <2>1, <2>2, <2>3, Zenon DEF Unmarshal
<1>7. CASE Validate
  <2>1. CASE ~(ValidURL(file.apiServerURL) /\ ValidURL(file.backendURL)) /\ Exit
    <3>1. {file.apiServerURL, file.backendURL} \cap {Missing, Malformed} # {}
      <4>1. file.apiServerURL \in {Missing, Malformed} \/ file.backendURL \in {Missing, Malformed}
        BY <2>1 DEF ValidURL
      <4> QED
        BY <4>1, Zenon
    <3> QED
      BY <1>4, <2>1, <3>1 DEF Exit
  <2>2. CASE ~ValidAuth(file.auth) /\ Exit
    <3>1. ~file.auth.kubeConfigPath /\ Missing \in {file.auth.ca, file.auth.cert, file.auth.key}
      BY <2>2 DEF ValidAuth
    <3> QED
      BY <1>4, <2>2, <3>1 DEF Exit
  <2>3. CASE phase = "validate" /\ phase' = "defaults" /\ UNCHANGED found
    BY <1>3, <2>3
  <2> QED
    BY <1>7, <2>1, <2>2, <2>3 DEF Validate, ValidAPIServer
<1>8. CASE Defaults
  BY <1>3, <1>8 DEF Defaults
<1>9. CASE NewClient
  BY <1>3, <1>9 DEF NewClient
<1>10. CASE NewKubeClient
  <2>1. CASE /\ ~file.auth.kubeConfigPath /\ phase' = "newForConfig"
             /\ tlsConfig' = [ca |-> file.auth.ca, cert |-> file.auth.cert, key |-> file.auth.key]
    <3>1. tlsConfig' \in Credentials
      BY <2>1 DEF Credentials
    <3> QED
      BY <1>2, <2>1, <3>1 DEF CredentialsFit, ExitHasAReason
  <2>2. CASE file.auth.kubeConfigPath /\ phase' = "findCluster" /\ UNCHANGED found
    BY <1>1, <1>10, <2>2 DEF NewKubeClient, CredentialsFit, ExitHasAReason, found
  <2>3. CASE file.auth.kubeConfigPath /\ ~kubeConfig.readable /\ Exit
    BY <1>4, <2>3 DEF Exit
  <2> QED
    BY <1>10, <2>1, <2>2, <2>3 DEF NewKubeClient
<1>11. CASE FindCluster
  <2>1. file.auth.kubeConfigPath /\ tlsConfig = [ca |-> Missing, cert |-> Missing, key |-> Missing]
    BY <1>11 DEF FindCluster, CredentialsFit
  <2>2. CASE ClustersAt(file.apiServerURL) = {} /\ Exit
    BY <1>4, <2>1, <2>2 DEF Exit
  <2>3. ASSUME NEW c \in ClustersAt(file.apiServerURL), cluster' = c, phase' = "findContext",
               tlsConfig' = [tlsConfig EXCEPT !.ca = kubeConfig.clusters[c].ca]
        PROVE  CredentialsFit'
    <3>1. tlsConfig' = [ca |-> kubeConfig.clusters[c].ca, cert |-> Missing, key |-> Missing]
      BY <2>1, <2>3, Zenon
    <3> QED
      BY <1>1, <1>2, <2>1, <2>3, <3>1 DEF CredentialsFit, ExitHasAReason
  <2> QED
    BY <1>11, <2>2, <2>3 DEF FindCluster
<1>12. CASE FindContext
  <2>1. /\ file.auth.kubeConfigPath /\ cluster \in ClustersAt(file.apiServerURL)
        /\ tlsConfig = [ca |-> kubeConfig.clusters[cluster].ca, cert |-> Missing, key |-> Missing]
    BY <1>12 DEF FindContext, CredentialsFit
  <2>2. ASSUME NEW x \in ContextsOf(cluster), kubeConfig.contexts[x].authInfo # Missing,
               user' = kubeConfig.contexts[x].authInfo, phase' = "findUser",
               UNCHANGED <<cluster, tlsConfig>>
        PROVE  CredentialsFit'
    <3>1. x \in ContextsOf(cluster)' /\ kubeConfig'.contexts[x].authInfo = user'
      BY <1>1, <2>2 DEF ContextsOf
    <3> QED
      BY <1>1, <1>2, <2>1, <2>2, <3>1 DEF CredentialsFit, ExitHasAReason
  <2>3. ASSUME NEW x \in ContextsOf(cluster), kubeConfig.contexts[x].authInfo = Missing, Exit
        PROVE  CredentialsFit'
    <3>1. x \in DeadEnds
      BY <2>1, <2>3 DEF DeadEnds, ContextsOf, Pairings
    <3> QED
      BY <1>4, <2>1, <2>3, <3>1 DEF Exit
  <2>4. ASSUME ContextsOf(cluster) = {}, Exit PROVE CredentialsFit'
    <3>1. cluster \in DeadEnds
      BY <2>1, <2>4 DEF DeadEnds, ContextsOf
    <3> QED
      BY <1>4, <2>1, <2>4, <3>1 DEF Exit
  <2> QED
    BY <1>12, <2>2, <2>3, <2>4 DEF FindContext
<1>13. CASE FindUser
  <2>1. /\ file.auth.kubeConfigPath /\ cluster \in ClustersAt(file.apiServerURL) /\ user # Missing
        /\ tlsConfig = [ca |-> kubeConfig.clusters[cluster].ca, cert |-> Missing, key |-> Missing]
        /\ \E x \in ContextsOf(cluster) : kubeConfig.contexts[x].authInfo = user
    BY <1>13 DEF FindUser, CredentialsFit
  <2>2. PICK x \in ContextsOf(cluster) : kubeConfig.contexts[x].authInfo = user
    BY <2>1
  <2>3. CASE user \notin DOMAIN kubeConfig.authInfos /\ Exit
    <3>1. x \in DeadEnds
      BY <2>1, <2>2, <2>3 DEF DeadEnds, ContextsOf, Pairings
    <3> QED
      BY <1>4, <2>1, <2>3, <3>1 DEF Exit
  <2>4. CASE /\ user \in DOMAIN kubeConfig.authInfos /\ phase' = "newForConfig"
             /\ tlsConfig' = [tlsConfig EXCEPT !.cert = kubeConfig.authInfos[user].cert,
                                               !.key = kubeConfig.authInfos[user].key]
    <3>1. x \in Pairings /\ kubeConfig.contexts[x].cluster = cluster
      BY <2>1, <2>2, <2>4 DEF Pairings, ContextsOf
    <3>2. tlsConfig' = [ca |-> kubeConfig.clusters[cluster].ca,
                        cert |-> kubeConfig.authInfos[user].cert,
                        key |-> kubeConfig.authInfos[user].key]
      BY <2>1, <2>4, Zenon
    <3>3. tlsConfig' \in Credentials
      BY <2>1, <2>2, <3>1, <3>2 DEF Credentials
    <3> QED
      BY <1>2, <2>4, <3>3 DEF CredentialsFit, ExitHasAReason
  <2> QED
    BY <1>13, <2>3, <2>4 DEF FindUser
<1>14. CASE NewForConfig
  <2>1. tlsConfig \in Credentials
    BY <1>14 DEF NewForConfig, CredentialsFit
  <2>2. CASE phase' = "newServer" /\ UNCHANGED found
    BY <1>2, <2>1, <2>2 DEF CredentialsFit, ExitHasAReason, found
  <2>3. CASE file.certsReadable /\ tlsConfig.cert # Missing /\ tlsConfig.key = Missing /\ Exit
    <3>1. CASE ~file.auth.kubeConfigPath
      <4>1. tlsConfig = [ca |-> file.auth.ca, cert |-> file.auth.cert, key |-> file.auth.key]
        BY <2>1, <3>1 DEF Credentials
      <4>2. file.auth.key = Missing
        BY <2>3, <4>1
      <4> QED
        BY <1>4, <2>3, <3>1, <4>2 DEF Exit
    <3>2. CASE file.auth.kubeConfigPath
      <4>1. PICK x \in Pairings :
              tlsConfig = [ca   |-> kubeConfig.clusters[kubeConfig.contexts[x].cluster].ca,
                           cert |-> kubeConfig.authInfos[kubeConfig.contexts[x].authInfo].cert,
                           key  |-> kubeConfig.authInfos[kubeConfig.contexts[x].authInfo].key]
        BY <2>1, <3>2 DEF Credentials
      <4>2. /\ kubeConfig.authInfos[kubeConfig.contexts[x].authInfo].cert # Missing
            /\ kubeConfig.authInfos[kubeConfig.contexts[x].authInfo].key = Missing
        BY <2>3, <4>1, Zenon
      <4>3. x \in DeadEnds
        BY <4>2 DEF DeadEnds, Pairings
      <4> QED
        BY <1>4, <2>3, <3>2, <4>3 DEF Exit
    <3> QED
      BY <3>1, <3>2
  <2>4. CASE ~file.certsReadable /\ Exit
    BY <1>4, <2>4 DEF Exit
  <2>5. CASE file.apiServerURL = Relative /\ Exit
    BY <1>4, <2>5 DEF Exit
  <2> QED
    BY <1>14, <2>2, <2>3, <2>4, <2>5 DEF NewForConfig, CertificatesLoad, DefaultServerURL
<1>15. CASE NewServer
  <2>1. CASE file.portTaken /\ Exit
    BY <1>4, <2>1 DEF Exit
  <2>2. CASE phase = "newServer" /\ phase' = "serving" /\ UNCHANGED found
    BY <1>2, <2>2 DEF CredentialsFit, ExitHasAReason, found
  <2> QED
    BY <1>15, <2>1, <2>2 DEF NewServer
<1> QED
  BY <1>5, <1>6, <1>7, <1>8, <1>9, <1>10, <1>11, <1>12, <1>13, <1>14, <1>15 DEF Main

(* Before main begins. *)
LEMMA StartupBegins == StartupInit => TimeoutsFit /\ CredentialsFit
<1> SUFFICES ASSUME StartupInit PROVE TimeoutsFit /\ CredentialsFit
  OBVIOUS
<1>1. TimeoutsFit
  <2>1. \A p \in Part : \/ file.timeout[p].form \in {"absent", "illegal", "one digit"}
                        \/ file.timeout[p].form = "quoted" /\ file.timeout[p].seconds \in Int
    <3>1. PICK c \in Configuration : file = c.file
      BY DEF StartupInit
    <3> QED
      BY <3>1, ConfigurationAssumption, Zenon
  <2>2. timeout \in [Part -> Int] /\ phase = "readConfig"
    BY DEF StartupInit
  <2> QED
    BY <2>1, <2>2, Zenon DEF TimeoutsFit, AfterUnmarshal, AfterDefaults, AfterNewClient
<1>2. CredentialsFit
  BY DEF StartupInit, CredentialsFit, FindingPhase, FirstPhase, ExitHasAReason
<1> QED
  BY <1>1, <1>2

-----------------------------------------------------------------------------
(* Gateway: the answer.                                                    *)

(* An answer, field by field. *)
AnswerOf(s, d, b, e) == [status |-> s, declared |-> d, body |-> b, end |-> e]

NoAnswer == AnswerOf(0, -1, <<>>, "none")

(* The length that copyHeader declares. *)
Declared(r) == IF r.chunked THEN -1 ELSE r.length

(* The pieces of an error message. *)
ErrorBody == [k \in 1..ErrorLength |-> "error"]

(* What http.ResponseWriter makes of the status, the body and the end. *)
FirstStatus(s, new) == IF s = 0 THEN new ELSE s
Extended(d, b, pieces) == IF d >= 0 /\ Len(b) + Len(pieces) > d THEN b ELSE b \o pieces
Ending(d, b) == IF d >= 0 /\ Len(b) < d THEN "cut off" ELSE "complete"

(* The first status counts, *)
LEMMA HeaderWritten ==
  ASSUME NEW s, NEW d, NEW b, NEW e, NEW new
  PROVE  WriteHeader(AnswerOf(s, d, b, e), new) = AnswerOf(FirstStatus(s, new), d, b, e)
BY DEF WriteHeader, AnswerOf, FirstStatus

(* a piece is written unless it exceeds the declared length, *)
LEMMA PiecesWritten ==
  ASSUME NEW s, NEW d, NEW b, NEW e, NEW q
  PROVE  Write(AnswerOf(s, d, b, e), q) = AnswerOf(s, d, Extended(d, b, q), e)
<1> DEFINE a == AnswerOf(s, d, b, e)
<1>1. a.declared = d /\ a.body = b
  BY DEF AnswerOf
<1>2. Write(a, q) = IF d >= 0 /\ Len(b) + Len(q) > d THEN a ELSE [a EXCEPT !.body = b \o q]
  BY <1>1, Zenon DEF Write
<1>3. \A v : [a EXCEPT !.body = v] = AnswerOf(s, d, v, e)
  BY DEF AnswerOf
<1> HIDE DEF a
<1> QED
  BY <1>2, <1>3, Zenon DEF a, Extended

(* and an answer that is too short is cut off. *)
LEMMA Finished ==
  ASSUME NEW s, NEW d, NEW b, NEW e
  PROVE  Finish(AnswerOf(s, d, b, e)) = AnswerOf(s, d, b, Ending(d, b))
<1> DEFINE a == AnswerOf(s, d, b, e)
<1>1. a.declared = d /\ a.body = b
  BY DEF AnswerOf
<1>2. Finish(a) = [a EXCEPT !.end = Ending(d, b)]
  BY <1>1, Zenon DEF Finish, Ending
<1>3. \A v : [a EXCEPT !.end = v] = AnswerOf(s, d, b, v)
  BY DEF AnswerOf
<1> HIDE DEF a
<1> QED
  BY <1>2, <1>3, Zenon DEF a

(* The body grows piece by piece. *)
LEMMA Bodies ==
  ASSUME NEW n \in Nat
  PROVE  /\ Body(n) \in Seq({"backend"}) /\ Len(Body(n)) = n
         /\ Body(n) \o <<"backend">> = Body(n + 1)
         /\ IsPrefix(Body(n), Body(n)) /\ IsPrefix(Body(n), Body(n) \o ErrorBody)
         /\ Len(Body(n) \o ErrorBody) = n + ErrorLength /\ Len(ErrorBody) = ErrorLength
<1>1. Body(n) \in Seq({"backend"}) /\ Len(Body(n)) = n
  BY DEF Body
<1>2. ErrorBody \in Seq({"error"}) /\ Len(ErrorBody) = ErrorLength /\ ErrorLength \in Nat
  BY GatewayAssumption DEF ErrorBody
<1>3. Body(n) \o <<"backend">> = Body(n + 1)
  BY DEF Body
<1>4. Len(Body(n) \o ErrorBody) = n + ErrorLength
  BY <1>1, <1>2
<1>5. IsPrefix(Body(n), Body(n))
  BY <1>1 DEF IsPrefix
<1>6. IsPrefix(Body(n), Body(n) \o ErrorBody)
  <2>1. Len(Body(n)) <= Len(Body(n) \o ErrorBody)
    BY <1>1, <1>2, <1>4
  <2>2. SubSeq(Body(n), 1, n) = SubSeq(Body(n) \o ErrorBody, 1, n)
    BY <1>1, <1>2
  <2> QED
    BY <1>1, <2>1, <2>2 DEF IsPrefix
<1> QED
  BY <1>1, <1>2, <1>3, <1>4, <1>5, <1>6

-----------------------------------------------------------------------------
(* Gateway: an exchange.                                                   *)

(* A client's request that is not to be forwarded. *)
UpdatesTheSize == request.method = "POST" /\ request.resource \in SizeUpdate

(* While the backend's body is copied the answer is what has arrived. *)
Copied ==
  /\ response \in Response /\ arrived \in Nat /\ arrived <= response.length
  /\ answer = AnswerOf(response.status, Declared(response), Body(arrived), "none")

(* An error comes before the response, or before the end of its body. *)
Failed ==
  \/ response = NoResponse /\ arrived = 0 /\ answer = NoAnswer
  \/ Copied /\ (arrived < response.length \/ response.chunked)

(* Before the backend answers there is nothing, and at the end the answer  *)
(* is as it should be.                                                     *)
ExchangeFits ==
  /\ request \in RequestType
  /\ pc \in {"dispatch", "forward", "handled", "copy", "write", "fail", "answered", "returned"}
  /\ pc \in {"dispatch", "forward", "handled"} =>
       asked = {} /\ response = NoResponse /\ arrived = 0 /\ answer = NoAnswer
  /\ pc = "forward" /\ request.caller = "client" /\ request.form # "slash" => ~UpdatesTheSize
  /\ pc \in {"copy", "write"} => Copied
  /\ pc = "write" => arrived < response.length
  /\ pc = "fail" => Failed
  /\ SizeUpdatesAreNotForwarded
  /\ pc \in {"answered", "returned"} =>
       AnswerFollowsTheBackend /\ BrokenBodyIsNoticed /\ ResultIsWhole

(* The dispatch: a request on one of the two routes is never forwarded. *)
LEMMA DispatchFits ==
  ASSUME ExchangeFits, Redirect \/ Dispatch PROVE ExchangeFits'
<1>1. /\ pc = "dispatch" /\ asked' = {} /\ response' = NoResponse /\ arrived' = 0
      /\ answer' = NoAnswer
  BY DEF Redirect, Dispatch, ExchangeFits
<1>2. request \in RequestType
  BY DEF ExchangeFits
<1>3. SizeUpdatesAreNotForwarded'
  BY <1>1 DEF SizeUpdatesAreNotForwarded
<1>4. CASE Redirect
  <2>1. PICK m \in {request.method, "GET"} :
          request' = [request EXCEPT !.form = cleanPath(request.form), !.method = m]
    BY <1>4, Zenon DEF Redirect
  <2>2. m \in Method /\ cleanPath(request.form) \in {"plain", "doubled", "slash"}
    <3>1. request.method \in Method /\ request.form \in {"plain", "doubled", "slash"}
      BY <1>2 DEF RequestType
    <3>2. cleanPath(request.form) \in {"plain", "doubled", "slash"}
      BY <3>1 DEF cleanPath
    <3>3. m = request.method \/ m = "GET"
      OBVIOUS
    <3>4. "GET" \in Method
      BY DEF Method
    <3> QED
      BY <3>1, <3>2, <3>3, <3>4
  <2>3. request' \in RequestType
    BY <1>2, <2>1, <2>2, Zenon DEF RequestType
  <2>4. pc' = "dispatch"
    BY <1>1, <1>4 DEF Redirect
  <2> QED
    BY <1>1, <1>3, <2>3, <2>4 DEF ExchangeFits
<1>5. CASE Dispatch
  <2>1. request' = request /\ pc' \in {"handled", "forward"}
    BY <1>5 DEF Dispatch
  <2>2. ASSUME pc' = "forward", request.form # "slash" PROVE ~UpdatesTheSize'
    <3>1. request.form = "plain"
      BY <1>2, <1>5, <2>2 DEF Dispatch, cleanPath, RequestType
    <3> QED
      BY <1>5, <2>1, <2>2, <3>1 DEF Dispatch, IsUpdateRoute, UpdatesTheSize
  <2> QED
    BY <1>1, <1>2, <1>3, <2>1, <2>2 DEF ExchangeFits
<1> QED
  BY <1>4, <1>5

(* What Forward asks the backend is not a size update. *)
LEMMA AskingFits ==
  ASSUME ExchangeFits, pc = "forward", request' = request,
         asked' \subseteq asked \cup {poolURL(request)}
  PROVE  SizeUpdatesAreNotForwarded'
<1>1. asked = {}
  BY DEF ExchangeFits
<1>2. poolURL(request).method = request.method /\ poolURL(request).resource = request.resource
  BY DEF poolURL
<1>3. \A a \in asked' : a.method = request.method /\ a.resource = request.resource
  BY <1>1, <1>2
<1> QED
  BY <1>3 DEF ExchangeFits, UpdatesTheSize, SizeUpdatesAreNotForwarded

(* copyHeader takes over the status and the length. *)
LEMMA ForwardFits ==
  ASSUME ExchangeFits, Forward PROVE ExchangeFits'
<1>1. /\ pc = "forward" /\ asked' = asked \cup {poolURL(request)} /\ response' \in Response
      /\ answer' = copyHeader(answer, response') /\ pc' = "copy" /\ request' = request
      /\ arrived' = arrived
  BY DEF Forward
<1>2. answer = NoAnswer /\ arrived = 0 /\ request \in RequestType
  BY <1>1 DEF ExchangeFits
<1>3. /\ response'.status \in Nat \ {0} /\ response'.length \in Nat /\ response'.chunked \in BOOLEAN
  BY <1>1, GatewayAssumption
<1>4. answer' = AnswerOf(response'.status, Declared(response'), Body(0), "none")
  <2> DEFINE d == Declared(response')
  <2>1. answer' = WriteHeader([NoAnswer EXCEPT !.declared = d], response'.status)
    BY <1>1, <1>2, Zenon DEF copyHeader, Declared
  <2> HIDE DEF d
  <2>2. [NoAnswer EXCEPT !.declared = d] = AnswerOf(0, d, <<>>, "none")
    BY DEF NoAnswer, AnswerOf
  <2>3. answer' = AnswerOf(response'.status, d, <<>>, "none")
    <3>1. WriteHeader(AnswerOf(0, d, <<>>, "none"), response'.status) =
            AnswerOf(FirstStatus(0, response'.status), d, <<>>, "none")
      BY HeaderWritten
    <3>2. FirstStatus(0, response'.status) = response'.status
      BY DEF FirstStatus
    <3> QED
      BY <2>1, <2>2, <3>1, <3>2, Zenon
  <2>4. Body(0) = <<>>
    BY DEF Body
  <2> QED
    BY <2>3, <2>4, Zenon DEF d
<1>5. SizeUpdatesAreNotForwarded'
  BY <1>1, AskingFits
<1>6. Copied'
  BY <1>1, <1>2, <1>3, <1>4 DEF Copied
<1> QED
  BY <1>1, <1>2, <1>5, <1>6 DEF ExchangeFits

(* What is known while the body is copied. *)
LEMMA Copying ==
  ASSUME Copied
  PROVE  /\ response.status \in Nat \ {0} /\ response.length \in Nat
         /\ response.chunked \in BOOLEAN /\ arrived \in Nat /\ arrived <= response.length
         /\ answer = AnswerOf(response.status, Declared(response), Body(arrived), "none")
         /\ response # NoResponse
BY GatewayAssumption DEF Copied, NoResponse

(* Every piece fits, since no more arrive than were declared. *)
LEMMA PieceFits ==
  ASSUME Copied, arrived < response.length, arrived' = arrived + 1,
         answer' = Write(answer, <<"backend">>), response' = response
  PROVE  Copied'
<1>1. /\ response.length \in Nat /\ response.chunked \in BOOLEAN /\ arrived \in Nat
      /\ answer = AnswerOf(response.status, Declared(response), Body(arrived), "none")
  BY Copying
<1>2. Extended(Declared(response), Body(arrived), <<"backend">>) = Body(arrived + 1)
  <2>1. Len(Body(arrived)) = arrived /\ Len(<<"backend">>) = 1
    BY <1>1, Bodies
  <2>2. ~(Declared(response) >= 0 /\ Len(Body(arrived)) + Len(<<"backend">>) > Declared(response))
    BY <1>1, <2>1 DEF Declared
  <2>3. arrived \in Nat
    BY <1>1
  <2>4. Body(arrived) \o <<"backend">> = Body(arrived + 1)
    BY <2>3, Bodies, Zenon
  <2> QED
    BY <2>2, <2>4, Zenon DEF Extended
<1>3. Write(answer, <<"backend">>) =
        AnswerOf(response.status, Declared(response),
                 Extended(Declared(response), Body(arrived), <<"backend">>), "none")
  BY <1>1, PiecesWritten
<1>4. answer' = AnswerOf(response.status, Declared(response), Body(arrived + 1), "none")
  BY <1>2, <1>3, Zenon
<1> QED
  BY <1>1, <1>4 DEF Copied

(* A piece is read, and for a client it is written in a second step. *)
LEMMA PiecesFit ==
  ASSUME ExchangeFits, ReadPiece \/ WritePiece PROVE ExchangeFits'
<1>1. /\ request \in RequestType /\ Copied /\ arrived < response.length
      /\ request' = request /\ asked' = asked /\ response' = response
  BY DEF ReadPiece, WritePiece, ExchangeFits
<1>2. SizeUpdatesAreNotForwarded'
  BY <1>1 DEF ExchangeFits, SizeUpdatesAreNotForwarded
<1>3. CASE arrived' = arrived + 1 /\ answer' = Write(answer, <<"backend">>) /\ pc' = "copy"
  <2>1. Copied'
    BY <1>1, <1>3, PieceFits
  <2> QED
    BY <1>1, <1>2, <1>3, <2>1 DEF ExchangeFits
<1>4. CASE pc' = "write" /\ arrived' = arrived /\ answer' = answer
  <2>1. Copied'
    BY <1>1, <1>4, Zenon DEF Copied
  <2> QED
    BY <1>1, <1>2, <1>4, <2>1 DEF ExchangeFits
<1> QED
  BY <1>3, <1>4 DEF ReadPiece, WritePiece

(* The error message that is appended to an answer which has begun, if it  *)
(* fits, and what becomes of the answer then.                              *)
LEMMA ErrorAppended ==
  ASSUME NEW s, NEW d, NEW b
  PROVE  Finish(writeErrorResponse(AnswerOf(s, d, b, "none"), 502)) =
           AnswerOf(FirstStatus(s, 502), d, Extended(d, b, ErrorBody),
                    Ending(d, Extended(d, b, ErrorBody)))
<1>1. WriteHeader(AnswerOf(s, d, b, "none"), 502) = AnswerOf(FirstStatus(s, 502), d, b, "none")
  BY HeaderWritten
<1>2. writeErrorResponse(AnswerOf(s, d, b, "none"), 502) =
        Write(AnswerOf(FirstStatus(s, 502), d, b, "none"), ErrorBody)
  BY <1>1, ZenonT(30) DEF writeErrorResponse, ErrorBody
<1>3. Write(AnswerOf(FirstStatus(s, 502), d, b, "none"), ErrorBody) =
        AnswerOf(FirstStatus(s, 502), d, Extended(d, b, ErrorBody), "none")
  BY PiecesWritten
<1>4. Finish(AnswerOf(FirstStatus(s, 502), d, Extended(d, b, ErrorBody), "none")) =
        AnswerOf(FirstStatus(s, 502), d, Extended(d, b, ErrorBody),
                 Ending(d, Extended(d, b, ErrorBody)))
  BY Finished
<1> QED
  BY <1>2, <1>3, <1>4

(* A call that gets no response leaves the caller with an error. *)
LEMMA ForwardFailsFits ==
  ASSUME ExchangeFits, ForwardFails PROVE ExchangeFits'
<1>1. /\ pc = "forward" /\ asked' \subseteq asked \cup {poolURL(request)}
      /\ request' = request /\ response' = response /\ arrived' = arrived
  BY DEF ForwardFails
<1>2. response = NoResponse /\ arrived = 0 /\ answer = NoAnswer /\ request \in RequestType
  BY <1>1 DEF ExchangeFits
<1>3. SizeUpdatesAreNotForwarded'
  BY <1>1, AskingFits
<1>4. CASE pc' = "fail" /\ answer' = answer
  BY <1>1, <1>2, <1>3, <1>4 DEF ExchangeFits, Failed
<1>5. CASE answer' = [answer EXCEPT !.end = "error"] /\ pc' = "returned"
  <2>1. answer'.end = "error"
    BY <1>2, <1>5 DEF NoAnswer, AnswerOf
  <2>2. AnswerFollowsTheBackend' /\ BrokenBodyIsNoticed' /\ ResultIsWhole'
    BY <1>1, <1>2, <1>5, <2>1 DEF AnswerFollowsTheBackend, BrokenBodyIsNoticed, ResultIsWhole
  <2> QED
    BY <1>1, <1>2, <1>3, <1>5, <2>2 DEF ExchangeFits
<1> QED
  BY <1>4, <1>5 DEF ForwardFails, Fail

(* So does a body that breaks off. *)
LEMMA BodyBreaksFits ==
  ASSUME ExchangeFits, BodyBreaks PROVE ExchangeFits'
<1>1. /\ pc = "copy" /\ (arrived < response.length \/ response.chunked)
      /\ request' = request /\ asked' = asked /\ response' = response /\ arrived' = arrived
  BY DEF BodyBreaks
<1>2. Copied /\ request \in RequestType
  BY <1>1 DEF ExchangeFits
<1>3. SizeUpdatesAreNotForwarded'
  BY <1>1 DEF ExchangeFits, SizeUpdatesAreNotForwarded
<1>4. CASE pc' = "fail" /\ answer' = answer
  <2>1. Copied'
    BY <1>1, <1>2, <1>4, Zenon DEF Copied
  <2> QED
    BY <1>1, <1>2, <1>3, <1>4, <2>1 DEF ExchangeFits, Failed
<1>5. CASE /\ request.caller = "proxy" /\ answer' = [answer EXCEPT !.end = "error"]
           /\ pc' = "returned"
  <2>1. answer'.end = "error"
    BY <1>2, <1>5, Copying DEF AnswerOf
  <2> QED
    BY <1>1, <1>2, <1>3, <1>5, <2>1 DEF ExchangeFits, AnswerFollowsTheBackend,
                                        BrokenBodyIsNoticed, ResultIsWhole
<1> QED
  BY <1>4, <1>5 DEF BodyBreaks, Fail

(* The error message after a part of the body: the client's answer is cut  *)
(* off, unless no length was declared or the error message fills the gap.  *)
(* In place of a response it is an answer of the proxy's own.              *)
LEMMA WriteErrorFits ==
  ASSUME ExchangeFits, WriteError PROVE ExchangeFits'
<1>1. /\ pc = "fail" /\ pc' = "answered" /\ answer' = Finish(writeErrorResponse(answer, 502))
      /\ request' = request /\ asked' = asked /\ response' = response /\ arrived' = arrived
  BY DEF WriteError
<1>2. Failed /\ request \in RequestType
  BY <1>1 DEF ExchangeFits
<1>3. SizeUpdatesAreNotForwarded'
  BY <1>1 DEF ExchangeFits, SizeUpdatesAreNotForwarded
<1>4. CASE response = NoResponse /\ arrived = 0 /\ answer = NoAnswer
  <2>1. PICK t, x, d : answer' = AnswerOf(t, d, x, Ending(d, x))
    BY <1>1, <1>4, ErrorAppended DEF NoAnswer
  <2>2. Ending(d, x) # "body"
    BY DEF Ending
  <2>3. answer'.end # "body"
    BY <2>1, <2>2 DEF AnswerOf
  <2>4. AnswerFollowsTheBackend' /\ BrokenBodyIsNoticed' /\ ResultIsWhole'
    BY <1>1, <1>4, <2>3 DEF AnswerFollowsTheBackend, BrokenBodyIsNoticed, ResultIsWhole, NoResponse
  <2> QED
    BY <1>1, <1>2, <1>3, <2>4 DEF ExchangeFits
<1>5. CASE Copied /\ (arrived < response.length \/ response.chunked)
  <2> DEFINE d == Declared(response)
             b == Body(arrived)
             x == Extended(d, b, ErrorBody)
             e == Ending(d, x)
  <2>1. /\ response.status \in Nat \ {0} /\ response.length \in Nat
        /\ response.chunked \in BOOLEAN /\ arrived \in Nat /\ arrived <= response.length
        /\ answer = AnswerOf(response.status, Declared(response), Body(arrived), "none")
    BY <1>5, Copying
  <2>2. /\ Len(b) = arrived /\ Len(ErrorBody) = ErrorLength /\ ErrorLength \in Nat
        /\ Len(b \o ErrorBody) = arrived + ErrorLength
        /\ IsPrefix(b, b) /\ IsPrefix(b, b \o ErrorBody)
    BY <2>1, Bodies, GatewayAssumption
  <2>3. IsPrefix(b, x) /\ e # "body"
    BY <2>2 DEF Extended, Ending
  <2>4. ~response.chunked => e = "cut off" \/ arrived + ErrorLength = response.length
    BY <1>5, <2>1, <2>2 DEF Declared, Extended, Ending
  <2>5. FirstStatus(response.status, 502) = response.status
    BY <2>1 DEF FirstStatus
  <2>6. answer' = AnswerOf(response.status, d, x, e)
    BY <1>1, <2>1, <2>5, ErrorAppended
  <2> HIDE DEF d, b, x, e
  <2>7. answer'.status = response.status /\ answer'.body = x /\ answer'.end = e
    BY <2>6 DEF AnswerOf
  <2>8. AnswerFollowsTheBackend'
    BY <1>1, <1>5, <2>1, <2>3, <2>7 DEF AnswerFollowsTheBackend, b
  <2>9. BrokenBodyIsNoticed'
    BY <1>1, <2>4, <2>7, Zenon DEF BrokenBodyIsNoticed
  <2>10. ResultIsWhole'
    BY <2>3, <2>7, Zenon DEF ResultIsWhole
  <2> QED
    BY <1>1, <1>2, <1>3, <2>8, <2>9, <2>10 DEF ExchangeFits
<1> QED
  BY <1>2, <1>4, <1>5 DEF Failed

(* A client that hangs up has got a part of the answer, and knows it. *)
LEMMA HangUpFits ==
  ASSUME ExchangeFits, HangUp PROVE ExchangeFits'
<1>1. /\ pc \in {"write", "fail"} /\ pc' = "answered" /\ answer' = [answer EXCEPT !.end = "cut off"]
      /\ request' = request /\ asked' = asked /\ response' = response /\ arrived' = arrived
  BY DEF HangUp
<1>2. Failed /\ request \in RequestType
  BY <1>1 DEF ExchangeFits, Failed
<1>3. SizeUpdatesAreNotForwarded'
  BY <1>1 DEF ExchangeFits, SizeUpdatesAreNotForwarded
<1>4. CASE response = NoResponse /\ arrived = 0 /\ answer = NoAnswer
  <2>1. answer'.end = "cut off"
    BY <1>1, <1>4 DEF NoAnswer, AnswerOf
  <2>2. AnswerFollowsTheBackend' /\ BrokenBodyIsNoticed' /\ ResultIsWhole'
    BY <1>1, <1>4, <2>1 DEF AnswerFollowsTheBackend, BrokenBodyIsNoticed, ResultIsWhole
  <2> QED
    BY <1>1, <1>2, <1>3, <2>2 DEF ExchangeFits
<1>5. CASE Copied /\ (arrived < response.length \/ response.chunked)
  <2>1. /\ answer = AnswerOf(response.status, Declared(response), Body(arrived), "none")
        /\ arrived \in Nat /\ response.length \in Nat
    BY <1>5, Copying
  <2>2. /\ answer'.status = response.status /\ answer'.body = Body(arrived)
        /\ answer'.end = "cut off"
    BY <1>1, <2>1 DEF AnswerOf
  <2>3. IsPrefix(Body(arrived), Body(arrived))
    BY <2>1, Bodies
  <2>4. AnswerFollowsTheBackend'
    <3>1. ~(arrived = response.length /\ ~response.chunked)
      BY <1>5, <2>1
    <3> QED
      BY <1>1, <2>2, <2>3, <3>1, Zenon DEF AnswerFollowsTheBackend
  <2>5. BrokenBodyIsNoticed' /\ ResultIsWhole'
    BY <2>2, Zenon DEF BrokenBodyIsNoticed, ResultIsWhole
  <2> QED
    BY <1>1, <1>2, <1>3, <2>4, <2>5 DEF ExchangeFits
<1> QED
  BY <1>2, <1>4, <1>5 DEF Failed

(* A body that has arrived as a whole: the answer is complete, and the     *)
(* proxy's own call returns the body if the status is 200.                 *)
LEMMA BodyEndsFits ==
  ASSUME ExchangeFits, BodyEnds PROVE ExchangeFits'
<1>1. /\ pc = "copy" /\ arrived = response.length
      /\ request' = request /\ asked' = asked /\ response' = response /\ arrived' = arrived
  BY DEF BodyEnds
<1>2. /\ response.status \in Nat \ {0} /\ response.length \in Nat
      /\ response.chunked \in BOOLEAN /\ arrived \in Nat
      /\ answer = AnswerOf(response.status, Declared(response), Body(arrived), "none")
      /\ request \in RequestType
  BY <1>1, Copying DEF ExchangeFits
<1>3. SizeUpdatesAreNotForwarded'
  BY <1>1 DEF ExchangeFits, SizeUpdatesAreNotForwarded
<1>4. CASE request.caller = "client" /\ answer' = Finish(answer) /\ pc' = "answered"
  <2>1. answer' = AnswerOf(response.status, Declared(response), Body(arrived),
                           Ending(Declared(response), Body(arrived)))
    BY <1>2, <1>4, Finished
  <2>2. Len(Body(arrived)) = arrived /\ IsPrefix(Body(arrived), Body(arrived))
    BY <1>2, Bodies
  <2>3. Ending(Declared(response), Body(arrived)) = "complete"
    BY <1>1, <1>2, <2>2 DEF Ending, Declared
  <2>4. answer'.status = response.status /\ answer'.body = Body(arrived) /\ answer'.end = "complete"
    BY <2>1, <2>3 DEF AnswerOf
  <2>5. AnswerFollowsTheBackend' /\ BrokenBodyIsNoticed' /\ ResultIsWhole'
    BY <1>1, <1>2, <2>2, <2>4 DEF AnswerFollowsTheBackend, BrokenBodyIsNoticed, ResultIsWhole
  <2> QED
    BY <1>1, <1>2, <1>3, <1>4, <2>5 DEF ExchangeFits
<1>5. CASE request.caller = "proxy" /\ answer' = returnBody(answer) /\ pc' = "returned"
  <2>1. answer'.body = Body(arrived) /\ (answer'.end = "body" => response.status = 200)
    BY <1>2, <1>5 DEF returnBody, AnswerOf
  <2>2. AnswerFollowsTheBackend' /\ BrokenBodyIsNoticed' /\ ResultIsWhole'
    BY <1>1, <1>5, <2>1 DEF AnswerFollowsTheBackend, BrokenBodyIsNoticed, ResultIsWhole
  <2> QED
    BY <1>1, <1>2, <1>3, <1>5, <2>2 DEF ExchangeFits
<1> QED
  BY <1>4, <1>5 DEF BodyEnds

(* Before an exchange begins. *)
LEMMA ExchangeBegins == GatewayInit => ExchangeFits
<1> SUFFICES ASSUME GatewayInit PROVE ExchangeFits
  OBVIOUS
<1>1. /\ request \in RequestType /\ pc \in {"dispatch", "forward"} /\ asked = {}
      /\ response = NoResponse /\ arrived = 0 /\ answer = NoAnswer
  BY GatewayAssumption DEF GatewayInit, NoAnswer, AnswerOf
<1>2. pc = "forward" => request.caller # "client"
  BY DEF GatewayInit
<1> QED
  BY <1>1, <1>2 DEF ExchangeFits, SizeUpdatesAreNotForwarded

-----------------------------------------------------------------------------
(* The process.                                                            *)

ServiceInv == TimeoutsFit /\ CredentialsFit /\ ExchangeFits

(* Startup and exchanges do not touch each other. *)
LEMMA StartupKept ==
  ASSUME TimeoutsFit, CredentialsFit, UNCHANGED startupVars PROVE TimeoutsFit' /\ CredentialsFit'
<1>1. /\ phase' = phase /\ file' = file /\ kubeConfig' = kubeConfig /\ timeout' = timeout
      /\ cluster' = cluster /\ user' = user /\ tlsConfig' = tlsConfig
  BY DEF startupVars
<1>2. TimeoutsFit'
  BY <1>1, Zenon DEF TimeoutsFit, IsConfigured
<1>3. /\ ClustersAt(file.apiServerURL)' = ClustersAt(file.apiServerURL)
      /\ ContextsOf(cluster)' = ContextsOf(cluster)
  BY <1>1, Zenon DEF ClustersAt, ContextsOf
<1>4. Pairings' = Pairings
  BY <1>1, <1>3, Zenon DEF Pairings
<1>5. Credentials' = Credentials
  BY <1>1, <1>4, Zenon DEF Credentials
<1>6. DeadEnds' = DeadEnds
  BY <1>1, <1>3, <1>4, Zenon DEF DeadEnds
<1>7. ExitHasAReason'
  BY <1>1, <1>3, <1>6, Zenon DEF ExitHasAReason, CredentialsFit
<1> QED
  BY <1>1, <1>2, <1>3, <1>5, <1>7, Zenon DEF CredentialsFit

(* Nor do exchanges while main starts. *)
LEMMA ExchangeKept ==
  ASSUME ExchangeFits, UNCHANGED gatewayVars PROVE ExchangeFits'
<1>1. /\ pc' = pc /\ request' = request /\ asked' = asked /\ response' = response
      /\ arrived' = arrived /\ answer' = answer
  BY DEF gatewayVars
<1>2. /\ AnswerFollowsTheBackend' = AnswerFollowsTheBackend
      /\ BrokenBodyIsNoticed' = BrokenBodyIsNoticed /\ ResultIsWhole' = ResultIsWhole
      /\ SizeUpdatesAreNotForwarded' = SizeUpdatesAreNotForwarded /\ UpdatesTheSize' = UpdatesTheSize
      /\ Copied' = Copied /\ Failed' = Failed
  BY <1>1, Zenon DEF Copied, Failed, UpdatesTheSize, SizeUpdatesAreNotForwarded, AnswerFollowsTheBackend,
                     BrokenBodyIsNoticed, ResultIsWhole
<1> QED
  BY <1>1, <1>2, Zenon DEF ExchangeFits

(* The inductive invariant of the process. *)
LEMMA ServiceInvariant == Spec => []ServiceInv
<1>1. Init => ServiceInv
  BY StartupBegins, ExchangeBegins DEF Init, ServiceInv
<1>2. ServiceInv /\ [Next]_vars => ServiceInv'
  <2> SUFFICES ASSUME ServiceInv, [Next]_vars PROVE ServiceInv'
    OBVIOUS
  <2>1. TimeoutsFit /\ CredentialsFit /\ ExchangeFits
    BY DEF ServiceInv
  <2>2. CASE Start
    BY <2>1, <2>2, MainTimeouts, MainCredentials, ExchangeKept DEF Start, ServiceInv
  <2>3. CASE Serve
    <3>1. ExchangeFits'
      BY <2>1, <2>3, DispatchFits, ForwardFits, ForwardFailsFits, PiecesFit, BodyBreaksFits,
         BodyEndsFits, WriteErrorFits, HangUpFits DEF Serve, Exchange
    <3> QED
      BY <2>1, <2>3, <3>1, StartupKept DEF Serve, ServiceInv
  <2>4. CASE UNCHANGED vars
    BY <2>1, <2>4, StartupKept, ExchangeKept DEF vars, ServiceInv
  <2> QED
    BY <2>2, <2>3, <2>4 DEF Next
<1> QED
  BY <1>1, <1>2, PTL DEF Spec

(* NewKubeClient and tlsClientConfigFromKubeConfig: a proxy that serves    *)
(* uses certificates and a key that belong together, whatever the order in *)
(* which Go iterates over the maps of the kubeconfig.                      *)
THEOREM ServesWithMatchingCredentials == Spec => []CredentialsBelongTogether
<1>1. ServiceInv => CredentialsBelongTogether
  BY DEF ServiceInv, CredentialsFit, CredentialsBelongTogether
<1> QED
  BY <1>1, ServiceInvariant, PTL

(* main exits only for a reason that the files or the surroundings give. *)
THEOREM NoExitWithoutReason == Spec => []ExitHasAReason
<1>1. ServiceInv => ExitHasAReason
  BY DEF ServiceInv, CredentialsFit
<1> QED
  BY <1>1, ServiceInvariant, PTL

(* populateDefaults, NewClient and NewServer between them give a proxy     *)
(* that serves its three timeouts, for the calls of its two clients and    *)
(* for reading requests, unless the file itself gives the client of the    *)
(* API server a negative one.                                              *)
THEOREM ServesWithTimeouts == Spec => []TimeoutsAreSet
<1>1. ServiceInv => TimeoutsAreSet
  <2> SUFFICES ASSUME TimeoutsFit, phase = "serving", NEW p \in Part
               PROVE  timeout[p] > 0 \/ (p = "apiServer" /\ file.timeout[p].form = "quoted"
                                                        /\ file.timeout[p].seconds < 0)
    BY DEF ServiceInv, TimeoutsAreSet
  <2>1. timeout["backend"] > 0 /\ timeout["server"] > 0
    BY Zenon DEF TimeoutsFit, AfterNewClient
  <2>2. timeout[p] > 0 \/ (timeout[p] < 0 /\ IsConfigured(p))
    BY Zenon DEF TimeoutsFit, AfterDefaults, AfterNewClient
  <2>3. p \in {"server", "apiServer", "backend"}
    BY DEF Part
  <2> QED
    BY <2>1, <2>2, <2>3, Zenon DEF IsConfigured
<1> QED
  BY <1>1, ServiceInvariant, PTL

(* NewServer's routes and Forward: the forwarding path asks the backend    *)
(* for no size update, unless the client's path has a trailing slash.      *)
THEOREM UpdatesAreHandledByTheProxy == Spec => []SizeUpdatesAreNotForwarded
<1>1. ServiceInv => SizeUpdatesAreNotForwarded
  BY DEF ServiceInv, ExchangeFits
<1> QED
  BY <1>1, ServiceInvariant, PTL

(* What ExchangeFits says of the ends holds before them too. *)
LEMMA ExchangePhases ==
  ASSUME ExchangeFits
  PROVE  AnswerFollowsTheBackend /\ BrokenBodyIsNoticed /\ ResultIsWhole
<1>1. CASE \/ pc \in {"dispatch", "forward", "handled"}
           \/ pc = "fail" /\ response = NoResponse /\ answer = NoAnswer
  <2>1. response = NoResponse /\ answer = NoAnswer /\ pc # "answered"
    BY <1>1 DEF ExchangeFits
  <2>2. answer.end # "body"
    BY <2>1 DEF NoAnswer, AnswerOf
  <2> QED
    BY <2>1, <2>2, Zenon DEF AnswerFollowsTheBackend, BrokenBodyIsNoticed, ResultIsWhole
<1>2. CASE pc \in {"copy", "write", "fail"} /\ Copied
  <2>1. /\ arrived \in Nat
        /\ answer = AnswerOf(response.status, Declared(response), Body(arrived), "none")
    BY <1>2, Copying
  <2>2. answer.status = response.status /\ answer.body = Body(arrived) /\ answer.end # "body"
    BY <2>1 DEF AnswerOf
  <2>3. IsPrefix(Body(arrived), Body(arrived))
    BY <2>1, Bodies
  <2> QED
    BY <1>2, <2>2, <2>3 DEF AnswerFollowsTheBackend, BrokenBodyIsNoticed, ResultIsWhole
<1>3. CASE pc \in {"answered", "returned"}
  BY <1>3 DEF ExchangeFits
<1> QED
  BY <1>1, <1>2, <1>3 DEF ExchangeFits, Failed

(* ForwardToBackend: the client's answer begins like the backend's, and is *)
(* the backend's if all of it has arrived.                                 *)
THEOREM AnswersFollow == Spec => []AnswerFollowsTheBackend
BY ServiceInvariant, ExchangePhases, PTL DEF ServiceInv

(* ForwardToBackend: a body that broke off is noticed by the client,       *)
(* unless the appended error message makes up for what is missing.         *)
THEOREM BreaksAreNoticed == Spec => []BrokenBodyIsNoticed
BY ServiceInvariant, ExchangePhases, PTL DEF ServiceInv

(* doRequest: what a call of the proxy's own returns is the whole body of  *)
(* a response with status 200.                                             *)
THEOREM ResultsAreWhole == Spec => []ResultIsWhole
BY ServiceInvariant, ExchangePhases, PTL DEF ServiceInv
=============================================================================
