----------------------------- MODULE ConfigProofs -----------------------------
(***************************************************************************)
(* Theorems about the configuration.  ConfigUpdate: the flash never goes   *)
(* back, and the update implements ConfigRegister, with the posts that are *)
(* parsed between a load of the main loop and its copy as its strays.      *)
(* ConfigForm: for any number of ports, slots and meters, any page that a  *)
(* user can leave behind is shown again and read by the device as it is,   *)
(* and its direct meters are served.                                       *)
(***************************************************************************)
EXTENDS MCConfig, ListProofs, FiniteSetTheorems

\* The types the other invariants need.
TypeOK ==
    /\ flash \in Configs
    /\ theConfiguration \in Configs \cup {Empty}
    /\ cfg \in Configs \cup {Empty}
    /\ applied \in Configs
    /\ post \in Configs
    /\ clients \subseteq Posts
    /\ asked \in [Posts -> Configs \cup {Empty}]
    /\ stored \subseteq Configs
    /\ strays \subseteq Configs
    /\ handler \in {"idle", "receive", "closed", "validate", "wait"}
    /\ handler # "idle" => post \in Posts

\* The one client that exists is no older than the flash, which holds the newest
\* configuration that was ever in it.
FlashInv ==
    /\ flash \in stored
    /\ flash <= post
    /\ \A n \in stored : n <= flash
    /\ \A c \in clients : flash <= c /\ c <= post
    /\ \A c, d \in clients : c = d

\* What the scheduler may be set to: something that was in the flash or is a stray, and not
\* older than what it has, unless that is a stray.
Coming(n) == n = Empty \/ (n \in stored \cup strays /\ (n >= applied \/ applied \in strays))

LoadInv ==
    /\ applied \in stored \cup strays
    /\ \A n \in strays : n <= post
    /\ main = "copyScheduler" => Coming(theConfiguration)
    /\ main = "check" => Coming(cfg)

\* Which broker a client asks: a post has its client when it is parsed, and what was loaded
\* in between is what the flash holds.
AskInv ==
    /\ handler \in {"receive", "validate"} => post \notin clients \cup stored
    /\ handler = "validate" => theConfiguration \in stored \cup {post, Empty}
    /\ \A c \in clients : asked[c] \in stored \cup {c, Empty}
    /\ \A n \in stored \ {0} : asked[n] \in stored \cup {n}

------------------------------------------------------------------------------
LEMMA TypeInductive == (Init => TypeOK) /\ (TypeOK /\ [Next]_vars => TypeOK')
<1>1. Init => TypeOK
  BY PostAssumption DEF Init, TypeOK, Configs, Posts
<1>2. TypeOK /\ [Next]_vars => TypeOK'
  <2> SUFFICES ASSUME TypeOK, [Next]_vars PROVE TypeOK'
    OBVIOUS
  <2>0. Posts \subseteq Configs /\ MaxPosts \in Nat
    BY PostAssumption DEF Posts, Configs
  <2>1. CASE BeginPost
    BY <2>0, <2>1 DEF BeginPost, TypeOK, mainVars, flashVars, Configs, Posts
  <2>2. CASE Handler
    BY <2>0, <2>2 DEF Handler, ReceiveFails, ReceiveClosed, ParsePost, StartClient, EndPost,
                      Deleted, TypeOK, mainVars, flashVars
  <2>3. CASE \E c \in Posts : OnConnected(c)
    BY <2>0, <2>3 DEF OnConnected, TypeOK, mainVars, postVars
  <2>4. CASE PressButton \/ MainLoop
    <3>1. ASSUME NEW from, NEW to, Load(from, to) PROVE TypeOK'
      BY <3>1 DEF Load, FromFlash, TypeOK, postVars, flashVars
    <3>2. ASSUME NEW from, NEW to, Copy(from, to) PROVE TypeOK'
      BY <3>2 DEF Copy, TypeOK, postVars, flashVars
    <3>3. CASE StopServer \/ StartServer
      BY <3>3 DEF StopServer, StartServer, TypeOK, postVars, flashVars
    <3>4. CASE SetScheduler
      <4>1. applied' \in Configs
        BY <3>4, PostAssumption DEF SetScheduler, TypeOK
      <4> QED
        BY <3>4, <4>1 DEF SetScheduler, TypeOK, postVars, flashVars
    <3> QED
      BY <2>4, <3>1, <3>2, <3>3, <3>4
      DEF PressButton, MainLoop, TakeRequest, ReconfigureHttp, ReconfigurePcScheduler
  <2>5. CASE UNCHANGED vars
    BY <2>5 DEF vars, mainVars, postVars, flashVars, TypeOK
  <2> QED
    BY <2>1, <2>2, <2>3, <2>4, <2>5 DEF Next
<1> QED
  BY <1>1, <1>2

\* No step but OnConnected writes the flash, and it writes the configuration of the one
\* client there is.
LEMMA FlashInductive ==
    /\ Init => FlashInv
    /\ TypeOK /\ FlashInv /\ [Next]_vars =>
          FlashInv' /\ flash' >= flash /\ stored \subseteq stored'
<1>1. Init => FlashInv
  BY DEF Init, FlashInv
<1>2. TypeOK /\ FlashInv /\ [Next]_vars =>
         FlashInv' /\ flash' >= flash /\ stored \subseteq stored'
  <2> SUFFICES ASSUME TypeOK, FlashInv, [Next]_vars
               PROVE  FlashInv' /\ flash' >= flash /\ stored \subseteq stored'
    OBVIOUS
  <2>0. /\ flash \in Nat /\ post \in Nat /\ \A c \in Posts : c \in Nat
        /\ \A n \in stored : n \in Nat
    BY PostAssumption DEF TypeOK, Configs, Posts
  <2>1. CASE BeginPost
    BY <2>0, <2>1 DEF BeginPost, FlashInv, TypeOK, mainVars, flashVars
  <2>2. CASE StartClient
    BY <2>0, <2>2 DEF StartClient, Deleted, FlashInv, mainVars, flashVars
  <2>3. CASE \E c \in Posts : OnConnected(c)
    <3>1. PICK c \in Posts : OnConnected(c)
      BY <2>3
    <3>2. c \in clients /\ UNCHANGED <<clients, post>>
      BY <3>1 DEF OnConnected, postVars
    <3>3. CASE flash' = c /\ stored' = stored \cup {c}
      BY <2>0, <3>2, <3>3 DEF FlashInv, TypeOK
    <3>4. CASE UNCHANGED <<flash, stored>>
      BY <2>0, <3>2, <3>4 DEF FlashInv
    <3> QED
      BY <3>1, <3>3, <3>4 DEF OnConnected
  <2>4. CASE UNCHANGED <<flash, stored, clients, post>>
    BY <2>0, <2>4 DEF FlashInv
  <2> QED
    BY <2>1, <2>2, <2>3, <2>4
    DEF Next, Handler, ReceiveFails, ReceiveClosed, ParsePost, EndPost, PressButton,
        MainLoop, TakeRequest, ReconfigureHttp, ReconfigurePcScheduler, Load, Copy,
        StopServer, StartServer, SetScheduler, vars, mainVars, postVars, flashVars
<1> QED
  BY <1>1, <1>2

LEMMA LoadInductive ==
    /\ Init => LoadInv
    /\ TypeOK /\ FlashInv /\ LoadInv /\ [Next]_vars =>
          LoadInv' /\ [Register!Next]_(Register!vars)
<1>1. Init => LoadInv
  BY DEF Init, LoadInv
<1>2. ASSUME TypeOK, FlashInv, LoadInv, [Next]_vars
      PROVE  LoadInv' /\ [Register!Next]_(Register!vars)
  <2>0. /\ \A n \in Configs : n \in Nat
        /\ stored \subseteq Configs /\ strays \subseteq Configs /\ post \in Nat /\ applied \in Nat
        /\ flash \in stored /\ (applied <= flash \/ applied \in strays) /\ applied <= post
    BY <1>2, PostAssumption DEF TypeOK, FlashInv, LoadInv, Configs
  <2>2. ASSUME stored \subseteq stored', UNCHANGED <<strays, applied, theConfiguration, cfg, main>>,
               post' \in Nat, post' >= post
        PROVE  LoadInv'
    <3>1. applied' \in (stored \cup strays)'
      BY <1>2, <2>2 DEF LoadInv
    <3>2. \A n \in strays' : n <= post'
      BY <1>2, <2>0, <2>2 DEF LoadInv
    <3>3. \A n : Coming(n) => Coming(n)'
      BY <2>2 DEF Coming
    <3>4. /\ main' = "copyScheduler" => Coming(theConfiguration)'
          /\ main' = "check" => Coming(cfg)'
      BY <1>2, <2>2, <3>3 DEF LoadInv
    <3> QED
      BY <3>1, <3>2, <3>4 DEF LoadInv
  <2>3. CASE \E c \in Posts : OnConnected(c)
    <3>1. PICK c \in Posts : OnConnected(c)
      BY <2>3
    <3>2. c \in clients /\ UNCHANGED <<theConfiguration, cfg, applied, main, strays, post>>
      BY <3>1 DEF OnConnected, mainVars, postVars
    <3>3. CASE flash' = c /\ stored' = stored \cup {c}
      <4>1. LoadInv'
        BY <2>0, <2>2, <3>2, <3>3
      <4>2. Register!Store(c)
        BY <1>2, <3>2, <3>3 DEF Register!Store, FlashInv
      <4>3. c \in Configs
        BY PostAssumption DEF Posts, Configs
      <4> QED
        BY <4>1, <4>2, <4>3 DEF Register!Next
    <3>4. CASE UNCHANGED <<flash, stored>>
      BY <2>0, <2>2, <3>2, <3>4 DEF Register!vars
    <3> QED
      BY <3>1, <3>3, <3>4 DEF OnConnected
  <2>4. CASE SetScheduler
    <3>1. /\ main = "check" /\ main' = "idle" /\ UNCHANGED <<flash, stored, strays, post>>
          /\ applied' = IF cfg \in ValidConfigs THEN cfg ELSE applied
      BY <2>4 DEF SetScheduler, flashVars, postVars
    <3>2. CASE cfg \in ValidConfigs
      <4>1. cfg # Empty
        BY <2>0, <3>2, PostAssumption DEF Empty
      <4>2. cfg \in stored \cup strays /\ (cfg >= applied \/ applied \in strays)
        BY <1>2, <3>1, <4>1 DEF LoadInv, Coming
      <4>3. Register!Apply(cfg)
        BY <3>1, <3>2, <4>2 DEF Register!Apply
      <4>4. LoadInv'
        BY <1>2, <3>1, <3>2, <4>2 DEF LoadInv
      <4> QED
        BY <3>2, <4>3, <4>4 DEF Register!Next
    <3>3. CASE cfg \notin ValidConfigs
      BY <1>2, <3>1, <3>3 DEF LoadInv, Register!vars
    <3> QED
      BY <3>2, <3>3
  <2>5. ASSUME NEW from, NEW to \in {"copyHttp", "copyLogging", "copyScheduler"}, Load(from, to)
        PROVE  LoadInv' /\ UNCHANGED <<flash, stored, strays, applied>>
    <3>1. /\ UNCHANGED <<flash, stored, strays, applied, post>>
          /\ theConfiguration' \in {flash, Empty} /\ main' = to
      BY <2>5 DEF Load, FromFlash, flashVars, postVars
    <3>2. Coming(theConfiguration)'
      <4>1. flash >= applied \/ applied \in strays
        BY <2>0
      <4> QED
        BY <2>0, <3>1, <4>1 DEF Coming
    <3> QED
      BY <1>2, <3>1, <3>2 DEF LoadInv, Coming
  <2>6. ASSUME NEW from \in {"copyHttp", "copyLogging"}, NEW to \in {"logging", "stop"},
               Copy(from, to)
        PROVE  LoadInv' /\ UNCHANGED <<flash, stored, strays, applied>>
    BY <1>2, <2>6 DEF Copy, LoadInv, flashVars, postVars
  <2>7. ASSUME Copy("copyScheduler", "check")
        PROVE  LoadInv' /\ UNCHANGED <<flash, stored, strays, applied>>
    BY <1>2, <2>7 DEF Copy, LoadInv, Coming, flashVars, postVars
  <2>8. CASE ParsePost
    <3>1. /\ UNCHANGED <<flash, stored, applied, cfg, main, post>> /\ theConfiguration' = post
          /\ strays' = IF main = "copyScheduler" THEN strays \cup {post} ELSE strays
      BY <2>8 DEF ParsePost, flashVars
    <3>2. LoadInv'
      BY <1>2, <2>0, <3>1 DEF LoadInv, Coming
    <3>3. CASE main = "copyScheduler"
      <4>1. Register!Stray(post) /\ post \in Configs
        BY <1>2, <3>1, <3>3 DEF Register!Stray, TypeOK
      <4> QED
        BY <3>2, <4>1 DEF Register!Next
    <3>4. CASE main # "copyScheduler"
      BY <3>1, <3>2, <3>4 DEF Register!vars
    <3> QED
      BY <3>3, <3>4
  <2>9. CASE StopServer \/ StartServer
    <3>1. main' \in {"start", "idle", "scheduler"} /\ UNCHANGED <<flash, stored, strays, applied, post>>
      BY <2>9 DEF StopServer, StartServer, flashVars, postVars
    <3> QED
      BY <1>2, <3>1 DEF LoadInv, Register!vars
  <2>10. CASE BeginPost \/ ReceiveFails \/ ReceiveClosed \/ StartClient \/ EndPost \/ UNCHANGED vars
    <3>1. /\ UNCHANGED <<flash, stored, strays, applied, theConfiguration, cfg, main>>
          /\ post' \in Nat /\ post' >= post
      BY <2>0, <2>10 DEF BeginPost, ReceiveFails, ReceiveClosed, StartClient, EndPost, vars,
         mainVars, flashVars, postVars
    <3> QED
      BY <2>2, <3>1 DEF Register!vars
  <2>11. CASE PressButton \/ TakeRequest \/ ReconfigureHttp
    BY <2>5, <2>6, <2>11 DEF PressButton, TakeRequest, ReconfigureHttp, Register!vars
  <2>12. CASE ReconfigurePcScheduler
    BY <2>4, <2>5, <2>7, <2>12 DEF ReconfigurePcScheduler, Register!vars
  <2> QED
    BY <1>2, <2>3, <2>8, <2>9, <2>10, <2>11, <2>12 DEF Next, Handler, MainLoop
<1> QED
  BY <1>1, <1>2

LEMMA AskInductive ==
    /\ Init => AskInv
    /\ TypeOK /\ FlashInv /\ AskInv /\ [Next]_vars => AskInv'
<1>1. Init => AskInv
  BY DEF Init, AskInv
<1>2. ASSUME TypeOK, FlashInv, AskInv, [Next]_vars PROVE AskInv'
  <2>0. /\ post \in Nat /\ flash \in stored /\ \A c \in Posts : c \in Nat /\ c # 0
        /\ \A n \in stored : n \in Nat /\ n <= post
        /\ \A c \in clients : c \in Posts /\ c <= post
    BY <1>2, PostAssumption DEF TypeOK, FlashInv, Configs, Posts
  <2>1. CASE BeginPost
    BY <1>2, <2>0, <2>1 DEF BeginPost, AskInv, mainVars, flashVars
  <2>2. CASE ReceiveFails \/ ReceiveClosed \/ EndPost
    BY <1>2, <2>2 DEF ReceiveFails, ReceiveClosed, EndPost, AskInv, mainVars, flashVars
  <2>3. CASE ParsePost
    BY <1>2, <2>3 DEF ParsePost, AskInv, flashVars
  <2>4. CASE StartClient
    <3>1. /\ handler = "validate" /\ handler' = "wait" /\ clients' = {post}
          /\ asked' = [asked EXCEPT ![post] = theConfiguration]
          /\ UNCHANGED <<post, stored, theConfiguration>>
      BY <2>4 DEF StartClient, Deleted, mainVars, flashVars
    <3>2. post \in Posts /\ post \notin stored
      BY <1>2, <3>1 DEF TypeOK, AskInv
    <3>3. \A c \in Posts : asked'[c] = IF c = post THEN theConfiguration ELSE asked[c]
      BY <1>2, <3>1 DEF TypeOK
    <3>4. \A n \in stored \ {0} : n # post /\ asked'[n] = asked[n]
      BY <1>2, <3>1, <3>2 DEF TypeOK
    <3> QED
      BY <1>2, <3>1, <3>2, <3>3, <3>4 DEF AskInv
  <2>5. CASE \E c \in Posts : OnConnected(c)
    <3>1. PICK c \in Posts : OnConnected(c)
      BY <2>5
    <3>2. /\ c \in clients /\ asked[c] # Empty
          /\ UNCHANGED <<clients, post, handler, asked, theConfiguration>>
          /\ stored' = stored \cup {c} \/ stored' = stored
      BY <3>1 DEF OnConnected, postVars, mainVars
    <3> QED
      BY <1>2, <3>2 DEF AskInv
  <2>6. ASSUME NEW from, NEW to, Load(from, to) PROVE AskInv'
    BY <1>2, <2>0, <2>6 DEF Load, FromFlash, AskInv, postVars, flashVars
  <2>7. CASE PressButton \/ MainLoop
    <3>1. CASE UNCHANGED <<theConfiguration, stored, clients, post, handler, asked>>
      BY <1>2, <3>1 DEF AskInv
    <3> QED
      BY <2>6, <2>7, <3>1
      DEF PressButton, MainLoop, TakeRequest, ReconfigureHttp, ReconfigurePcScheduler, Copy,
          StopServer, StartServer, SetScheduler, postVars, flashVars
  <2>8. CASE UNCHANGED vars
    BY <1>2, <2>8 DEF vars, mainVars, postVars, flashVars, AskInv
  <2> QED
    BY <1>2, <2>1, <2>2, <2>3, <2>4, <2>5, <2>7, <2>8 DEF Next, Handler
<1> QED
  BY <1>1, <1>2

------------------------------------------------------------------------------
\* A broker that answers late or again never brings an earlier configuration back into the
\* flash, for any number of posts and also when posts are parsed at the worst moment.
THEOREM FlashForward == Spec => NeverBackwards
<1>1. TypeOK /\ FlashInv /\ [Next]_vars => [flash' >= flash]_vars
  BY FlashInductive
<1> QED
  BY <1>1, FlashInductive, TypeInductive, PTL DEF Spec, NeverBackwards

\* The scheduler is only set to what was in the flash, or to a post that was parsed between
\* a load and its copy; and what is in the flash was answered for by its own broker or that
\* of a configuration that was there before.
THEOREM StoredOnly == Spec => []OnlyStored
<1>1. LoadInv /\ AskInv => OnlyStored
  BY DEF LoadInv, AskInv, OnlyStored
<1> QED
  BY <1>1, LoadInductive, AskInductive, FlashInductive, TypeInductive, PTL DEF Spec

\* The web server's task, the MQTT library's and the main loop together are one register of
\* the configuration, whose strays are the posts that are parsed between a load and its copy.
THEOREM RegisterKept == Spec => KeepsRegister
<1>1. Init => Register!Init
  BY DEF Init, Register!Init
<1> QED
  BY <1>1, LoadInductive, FlashInductive, TypeInductive, PTL
  DEF Spec, KeepsRegister, Register!Spec

------------------------------------------------------------------------------
(* The counters of a page                                                   *)

Kept(page, p) == page.name[p] # "" \/ Direct(p)

\* The counters that are pushed of the ports in S.
Lists(c, page, S) ==
    /\ S \subseteq Ports /\ IsFiniteSet(S)
    /\ c \in Seq({Counter(page, p) : p \in Ports})
    /\ \A i \in DOMAIN c : \E p \in S : Kept(page, p) /\ c[i] = Counter(page, p)
    /\ \A p \in S : Kept(page, p) => \E i \in DOMAIN c : c[i] = Counter(page, p)
    /\ Len(c) = Cardinality({p \in S : Kept(page, p)})
    /\ \A i \in DOMAIN c : c[i].outputPort = NoOutput <=> i <= Cardinality({p \in S : Direct(p)})

\* One more port: a direct one comes before those of the matrix.
LEMMA PushedLists ==
    ASSUME NEW page, NEW c, NEW S, Lists(c, page, S), NEW p \in Ports \ S,
           Direct(p) => \A q \in S : Direct(q)
    PROVE  Lists(Pushed(c, page, p), page, S \cup {p})
<1> DEFINE T == S \cup {p}
           K(X) == {q \in X : Kept(page, q)}
           D(X) == {q \in X : Direct(q)}
           R == {Counter(page, q) : q \in Ports}
<1>0. /\ S \subseteq Ports /\ IsFiniteSet(S) /\ c \in Seq(R)
      /\ Len(c) = Cardinality(K(S)) /\ Len(c) \in Nat /\ DOMAIN c = 1 .. Len(c)
  BY DEF Lists
<1>1. /\ T \subseteq Ports /\ IsFiniteSet(T)
      /\ IsFiniteSet(K(S)) /\ IsFiniteSet(D(S)) /\ IsFiniteSet(K(T)) /\ IsFiniteSet(D(T))
      /\ Cardinality(D(S)) <= Cardinality(K(S))
      /\ Cardinality(D(S)) \in Nat
  <2>1. T \subseteq Ports /\ IsFiniteSet(T)
    BY <1>0, FS_AddElement
  <2>2. K(S) \subseteq S /\ D(S) \subseteq S /\ K(T) \subseteq T /\ D(T) \subseteq T
        /\ D(S) \subseteq K(S)
    BY DEF Kept
  <2> HIDE DEF K, D, T
  <2> QED
    BY <1>0, <2>1, <2>2, FS_Subset, FS_CardinalityType
<1>2. CASE ~ Kept(page, p)
  <2>1. Pushed(c, page, p) = c
    BY <1>2 DEF Pushed, Kept
  <2>2. K(T) = K(S) /\ D(T) = D(S)
    BY <1>2 DEF Kept
  <2> QED
    BY <1>1, <1>2, <2>1, <2>2 DEF Lists
<1>3. CASE Kept(page, p)
  <2>0. PICK e : e = Counter(page, p)
    OBVIOUS
  <2> DEFINE d == Append(c, e)
             n == Len(c) + 1
  <2>1. Pushed(c, page, p) = d
    BY <1>3, <2>0 DEF Pushed, Kept
  <2>2. /\ d \in Seq(R) /\ Len(d) = n /\ DOMAIN d = 1 .. n /\ d[n] = e
        /\ \A i \in 1 .. Len(c) : d[i] = c[i] /\ i \in DOMAIN d
        /\ \A i \in DOMAIN d : i \in 1 .. Len(c) \/ i = n
    <3>1. e \in R
      BY <2>0
    <3> HIDE DEF R
    <3> QED
      BY <1>0, <3>1, OneAppended
  <2>3. Len(d) = Cardinality(K(T))
    <3>1. K(T) = K(S) \cup {p} /\ p \notin K(S)
      BY <1>3
    <3> QED
      BY <1>0, <1>1, <2>2, <3>1, FS_AddElement
  <2>4. \A i \in DOMAIN d : d[i].outputPort = NoOutput <=> i <= Cardinality(D(T))
    <3>1. \A i \in 1 .. Len(c) : c[i].outputPort = NoOutput <=> i <= Cardinality(D(S))
      BY <1>0 DEF Lists
    <3>2. d[n].outputPort = NoOutput <=> Direct(p)
      <4>1. e.outputPort = p[1]
        BY <2>0 DEF Counter
      <4> HIDE DEF d
      <4> QED
        BY <2>2, <4>1 DEF Direct
    <3>3. CASE Direct(p)
      <4>1. D(S) = K(S) /\ D(T) = D(S) \cup {p} /\ p \notin D(S)
        BY <3>3 DEF Kept
      <4>2. Cardinality(D(T)) = n
        BY <1>0, <1>1, <4>1, FS_AddElement
      <4>3. Cardinality(D(S)) = Len(c)
        BY <1>0, <4>1
      <4> HIDE DEF D, K, d
      <4> QED
        BY <1>0, <2>2, <3>1, <3>2, <3>3, <4>2, <4>3
    <3>4. CASE ~ Direct(p)
      <4>1. D(T) = D(S)
        BY <3>4
      <4> HIDE DEF D, K, d
      <4> QED
        BY <1>0, <1>1, <2>2, <3>1, <3>2, <3>4, <4>1
    <3> QED
      BY <3>3, <3>4
  <2>5. \A i \in DOMAIN d : \E q \in T : Kept(page, q) /\ d[i] = Counter(page, q)
    <3>1. \A i \in 1 .. Len(c) : \E q \in S : Kept(page, q) /\ c[i] = Counter(page, q)
      BY <1>0 DEF Lists
    <3> HIDE DEF d, n
    <3> QED
      BY <1>3, <2>0, <2>2, <3>1
  <2>6. \A q \in T : Kept(page, q) => \E i \in DOMAIN d : d[i] = Counter(page, q)
    <3>1. \A q \in S : Kept(page, q) => \E i \in 1 .. Len(c) : c[i] = Counter(page, q)
      BY <1>0 DEF Lists
    <3>2. n \in DOMAIN d
      <4> HIDE DEF d, K, D
      <4> QED
        BY <1>0, <2>2
    <3> HIDE DEF d, n
    <3> QED
      BY <2>0, <2>2, <3>1, <3>2
  <2>7. Lists(d, page, T)
    <3> HIDE DEF d, T, n
    <3> QED
      BY <1>1, <2>2, <2>3, <2>4, <2>5, <2>6 DEF Lists
  <2> QED
    BY <2>1, <2>7
<1> QED
  BY <1>2, <1>3

\* The counters that one page can push.
CountersOfPage(page) == Seq({Counter(page, p) : p \in Ports})

LEMMA PushedType ==
    ASSUME NEW page, NEW c \in CountersOfPage(page), NEW p \in Ports
    PROVE  Pushed(c, page, p) \in CountersOfPage(page)
<1> DEFINE R == {Counter(page, q) : q \in Ports}
<1>1. Counter(page, p) \in R
  OBVIOUS
<1> HIDE DEF R
<1>2. c \in Seq(R)
  BY DEF R, CountersOfPage
<1>3. Append(c, Counter(page, p)) \in Seq(R)
  BY <1>1, <1>2, OneAppended
<1> QED
  BY <1>2, <1>3 DEF Pushed, R, CountersOfPage

\* What is pushed before and after each input of a category.
PushesInputs(f, c, page, o) ==
    f = [i \in 0 .. NumIns |-> IF i = 0 THEN c ELSE Pushed(f[i - 1], page, <<o, i - 1>>)]

LEMMA InputsPushed ==
    ASSUME NEW page, NEW c \in CountersOfPage(page), NEW o \in Outs \cup {NoOutput}
    PROVE  \E f : /\ f[0] = c /\ Inputs(c, page, o) = f[NumIns]
                  /\ \A i \in 1 .. NumIns : f[i] = Pushed(f[i - 1], page, <<o, i - 1>>)
<1> DEFINE V == CountersOfPage(page)
           step == [x \in V \X (1 .. NumIns) |-> Pushed(x[1], page, <<o, x[2] - 1>>)]
<1>0. NumIns \in Nat /\ NumIns \in 0 .. NumIns /\ 0 \in 0 .. NumIns
  BY FormAssumption
<1>1. \A i \in 1 .. NumIns : <<o, i - 1>> \in Ports
  BY <1>0 DEF Ports, Ins
<1>2. Steps(step, V, NumIns)
  BY <1>1, PushedType DEF Steps
<1>3. PICK f : Iterated(f, V, c, step, NumIns)
  <2>1. c \in V
    OBVIOUS
  <2>2. NumIns \in Nat
    BY <1>0
  <2> HIDE DEF step, V
  <2> QED
    BY <1>2, <2>1, <2>2, Iterates
<1>4. PushesInputs(f, c, page, o)
  <2>1. \A i \in 1 .. NumIns : f[i] = Pushed(f[i - 1], page, <<o, i - 1>>)
    <3> SUFFICES ASSUME NEW i \in 1 .. NumIns
                 PROVE  f[i] = Pushed(f[i - 1], page, <<o, i - 1>>)
      OBVIOUS
    <3>1. i - 1 \in 0 .. NumIns
      BY <1>0
    <3>2. <<f[i - 1], i>> \in V \X (1 .. NumIns)
      BY <1>3, <3>1 DEF Iterated
    <3> QED
      BY <1>3, <3>2 DEF Iterated
  <2>2. \A i \in 0 .. NumIns : i = 0 \/ i \in 1 .. NumIns
    BY <1>0
  <2> QED
    BY <1>3, <2>1, <2>2 DEF PushesInputs, Iterated
<1>5. PICK g : PushesInputs(g, c, page, o) /\ Inputs(c, page, o) = g[NumIns]
  BY <1>4 DEF PushesInputs, Inputs
<1>6. g[0] = c /\ \A i \in 1 .. NumIns : g[i] = Pushed(g[i - 1], page, <<o, i - 1>>)
  <2>1. \A i \in 1 .. NumIns : i \in 0 .. NumIns /\ i # 0
    BY <1>0
  <2> QED
    BY <1>0, <1>5, <2>1 DEF PushesInputs
<1> QED
  BY <1>5, <1>6

\* The ports of a category up to an input, and those of all categories up to an output.
Row(o, i) == {o} \X (0 .. i - 1)
Rows(o) == ({NoOutput} \cup 0 .. o - 1) \X Ins

LEMMA InputsListed ==
    ASSUME NEW page, NEW o \in Outs \cup {NoOutput}, NEW S, NEW c, Lists(c, page, S),
           \A p \in S : p[1] # o, o = NoOutput => S = {}
    PROVE  Lists(Inputs(c, page, o), page, S \cup ({o} \X Ins))
<1>0. NumIns \in Nat
  BY FormAssumption
<1>1. c \in CountersOfPage(page)
  BY DEF Lists, CountersOfPage
<1>2. PICK f : /\ f[0] = c /\ Inputs(c, page, o) = f[NumIns]
               /\ \A i \in 1 .. NumIns : f[i] = Pushed(f[i - 1], page, <<o, i - 1>>)
  BY <1>1, InputsPushed
<1> DEFINE T == {i \in 0 .. NumIns : Lists(f[i], page, S \cup Row(o, i))}
<1>3. 0 \in T
  <2>1. S \cup Row(o, 0) = S
    BY DEF Row
  <2>2. Lists(f[0], page, S)
    BY <1>2
  <2>3. Lists(f[0], page, S \cup Row(o, 0))
    BY <2>1, <2>2
  <2>4. 0 \in 0 .. NumIns
    BY <1>0
  <2> QED
    BY <2>3, <2>4
<1>4. ASSUME NEW i \in 0 .. NumIns - 1, i \in T PROVE i + 1 \in T
  <2> DEFINE p == <<o, i>>
             X == S \cup Row(o, i)
  <2>1. Lists(f[i], page, X)
    BY <1>4
  <2>2. i + 1 \in 1 .. NumIns /\ i + 1 \in 0 .. NumIns /\ (i + 1) - 1 = i /\ i \in Ins
    BY <1>0 DEF Ins
  <2>3. p \in Ports \ X
    BY <2>2 DEF Ports, Row
  <2>4. Direct(p) => \A q \in X : Direct(q)
    BY DEF Direct, Row
  <2>5. X \cup {p} = S \cup Row(o, i + 1)
    BY <2>2 DEF Row
  <2>6. f[i + 1] = Pushed(f[i], page, p)
    BY <1>2, <2>2
  <2> HIDE DEF p, X
  <2>7. Lists(f[i + 1], page, X \cup {p})
    BY <2>1, <2>3, <2>4, <2>6, PushedLists
  <2> QED
    BY <2>2, <2>5, <2>7
<1>5. NumIns \in T
  <2>1. \A i \in 0 .. NumIns - 1 : i \in T => i + 1 \in T
    BY <1>4
  <2> HIDE DEF T
  <2> QED
    BY <1>0, <1>3, <2>1, Induction
<1>6. Row(o, NumIns) = {o} \X Ins
  BY DEF Row, Ins
<1> QED
  BY <1>2, <1>5, <1>6

LEMMA InputsType ==
    ASSUME NEW page, NEW c \in CountersOfPage(page), NEW o \in Outs \cup {NoOutput}
    PROVE  Inputs(c, page, o) \in CountersOfPage(page)
<1>0. NumIns \in Nat
  BY FormAssumption
<1>1. PICK f : /\ f[0] = c /\ Inputs(c, page, o) = f[NumIns]
               /\ \A i \in 1 .. NumIns : f[i] = Pushed(f[i - 1], page, <<o, i - 1>>)
  BY InputsPushed
<1> DEFINE T == {i \in 0 .. NumIns : f[i] \in CountersOfPage(page)}
<1>2. 0 \in T
  BY <1>0, <1>1
<1>3. ASSUME NEW i \in 0 .. NumIns - 1, i \in T PROVE i + 1 \in T
  <2>1. i + 1 \in 1 .. NumIns /\ i + 1 \in 0 .. NumIns /\ (i + 1) - 1 = i
    BY <1>0
  <2>2. <<o, i>> \in Ports
    BY <1>0 DEF Ports, Ins
  <2>3. f[i + 1] = Pushed(f[i], page, <<o, i>>)
    BY <1>1, <2>1
  <2>4. f[i] \in CountersOfPage(page)
    BY <1>3
  <2>5. f[i + 1] \in CountersOfPage(page)
    BY <2>2, <2>3, <2>4, PushedType
  <2> QED
    BY <2>1, <2>5
<1>4. NumIns \in T
  <2>1. \A i \in 0 .. NumIns - 1 : i \in T => i + 1 \in T
    BY <1>3
  <2> HIDE DEF T
  <2> QED
    BY <1>0, <1>2, <2>1, Induction
<1> QED
  BY <1>1, <1>4

\* What is pushed before and after each output.
PushesOutputs(f, page) ==
    f = [o \in 0 .. NumOuts |->
            IF o = 0 THEN Inputs(<<>>, page, NoOutput) ELSE Inputs(f[o - 1], page, o - 1)]

LEMMA CountersPushed ==
    ASSUME NEW page
    PROVE  \E f : /\ f[0] = Inputs(<<>>, page, NoOutput) /\ Counters(page) = f[NumOuts]
                  /\ \A o \in 1 .. NumOuts : f[o] = Inputs(f[o - 1], page, o - 1)
<1> DEFINE V == CountersOfPage(page)
           first == Inputs(<<>>, page, NoOutput)
           step == [x \in V \X (1 .. NumOuts) |-> Inputs(x[1], page, x[2] - 1)]
<1>0. NumOuts \in Nat /\ NumOuts \in 0 .. NumOuts /\ 0 \in 0 .. NumOuts
  BY FormAssumption
<1>1. \A o \in 1 .. NumOuts : o - 1 \in Outs
  BY <1>0 DEF Outs
<1>2. Steps(step, V, NumOuts)
  BY <1>1, InputsType DEF Steps
<1>3. first \in V
  <2>1. <<>> \in CountersOfPage(page)
    BY DEF CountersOfPage
  <2> QED
    BY <2>1, InputsType
<1>4. PICK f : Iterated(f, V, first, step, NumOuts)
  <2>1. NumOuts \in Nat
    BY <1>0
  <2> HIDE DEF step, V, first
  <2> QED
    BY <1>2, <1>3, <2>1, Iterates
<1>5. PushesOutputs(f, page)
  <2>1. \A o \in 1 .. NumOuts : f[o] = Inputs(f[o - 1], page, o - 1)
    <3> SUFFICES ASSUME NEW o \in 1 .. NumOuts
                 PROVE  f[o] = Inputs(f[o - 1], page, o - 1)
      OBVIOUS
    <3>1. o - 1 \in 0 .. NumOuts
      BY <1>0
    <3>2. <<f[o - 1], o>> \in V \X (1 .. NumOuts)
      BY <1>4, <3>1 DEF Iterated
    <3> QED
      BY <1>4, <3>2 DEF Iterated
  <2>2. \A o \in 0 .. NumOuts : o = 0 \/ o \in 1 .. NumOuts
    BY <1>0
  <2> QED
    BY <1>4, <2>1, <2>2 DEF PushesOutputs, Iterated
<1>6. PICK g : PushesOutputs(g, page) /\ Counters(page) = g[NumOuts]
  BY <1>5 DEF PushesOutputs, Counters
<1>7. g[0] = first /\ \A o \in 1 .. NumOuts : g[o] = Inputs(g[o - 1], page, o - 1)
  <2>1. \A o \in 1 .. NumOuts : o \in 0 .. NumOuts /\ o # 0
    BY <1>0
  <2> QED
    BY <1>0, <1>6, <2>1 DEF PushesOutputs
<1> QED
  BY <1>6, <1>7

LEMMA CountersListed ==
    ASSUME NEW page
    PROVE  Lists(Counters(page), page, Ports)
<1>0. NumOuts \in Nat /\ NumOuts <= NoOutput /\ NoOutput \in Nat
  BY FormAssumption DEF NoOutput
<1>1. PICK f : /\ f[0] = Inputs(<<>>, page, NoOutput) /\ Counters(page) = f[NumOuts]
               /\ \A o \in 1 .. NumOuts : f[o] = Inputs(f[o - 1], page, o - 1)
  BY CountersPushed
<1> DEFINE T == {o \in 0 .. NumOuts : Lists(f[o], page, Rows(o))}
<1>2. 0 \in T
  <2>1. Lists(<<>>, page, {})
    BY FS_EmptySet DEF Lists
  <2>2. Lists(f[0], page, {} \cup ({NoOutput} \X Ins))
    BY <1>1, <2>1, InputsListed
  <2>3. {} \cup ({NoOutput} \X Ins) = Rows(0)
    BY DEF Rows
  <2>4. 0 \in 0 .. NumOuts
    BY <1>0
  <2> QED
    BY <2>2, <2>3, <2>4
<1>3. ASSUME NEW o \in 0 .. NumOuts - 1, o \in T PROVE o + 1 \in T
  <2>1. o + 1 \in 1 .. NumOuts /\ o + 1 \in 0 .. NumOuts /\ (o + 1) - 1 = o /\ o \in Outs
        /\ o # NoOutput
    BY <1>0 DEF Outs
  <2>2. Lists(f[o], page, Rows(o))
    BY <1>3
  <2>3. f[o + 1] = Inputs(f[o], page, o)
    BY <1>1, <2>1
  <2>4. \A p \in Rows(o) : p[1] # o
    BY <1>0, <2>1 DEF Rows
  <2>5. Lists(f[o + 1], page, Rows(o) \cup ({o} \X Ins))
    BY <2>1, <2>2, <2>3, <2>4, InputsListed
  <2>6. Rows(o) \cup ({o} \X Ins) = Rows(o + 1)
    BY <1>0, <2>1 DEF Rows
  <2> QED
    BY <2>1, <2>5, <2>6
<1>4. NumOuts \in T
  <2>1. \A o \in 0 .. NumOuts - 1 : o \in T => o + 1 \in T
    BY <1>3
  <2> HIDE DEF T
  <2> QED
    BY <1>0, <1>2, <2>1, Induction
<1>5. Rows(NumOuts) = Ports
  BY DEF Rows, Ports, Outs
<1> QED
  BY <1>1, <1>4, <1>5

------------------------------------------------------------------------------
(* What the page that is opened shows                                       *)

\* A page with its fields, whose texts of a schedule can be read.
HasFields(page) ==
    page = [input |-> page.input, list |-> page.list, method |-> page.method,
            type |-> page.type, name |-> page.name, divider |-> page.divider]

Dividers == Nat \cup {Blank}

IsPage(page) ==
    /\ HasFields(page)
    /\ page.input = [f \in PageTexts |-> page.input[f]]
    /\ page.list = [f \in DOMAIN Sizes |-> page.list[f]]
    /\ page.method \in 0 .. 2
    /\ page.type \in [Outs -> -1 .. 1]
    /\ page.name = [p \in Ports |-> page.name[p]]
    /\ page.divider \in [Ports -> Dividers]
    /\ \A f \in DOMAIN Sizes : Read(page, f) = <<>> \/ Listing(Read(page, f), Sizes[f])

\* The JSON of a page, with or without the date.
JsonOf(page) == {BuildJsonFromHtml(page), AddBuildDate(BuildJsonFromHtml(page))}

LEMMA JsonFields ==
    ASSUME NEW page, NEW json \in JsonOf(page)
    PROVE  /\ json.text = [f \in SavedTexts |-> page.input[f]] /\ json.method = page.method
           /\ json.schedule = [f \in DOMAIN Sizes |-> Read(page, f)]
           /\ json.counters = Counters(page)
           /\ json.outputs = <<NoOutputs>> \o [i \in 1 .. NumOuts |-> AddOutput(page, i - 1)]
<1>1. CASE json = BuildJsonFromHtml(page)
  BY <1>1 DEF BuildJsonFromHtml, Read
<1>2. CASE json = AddBuildDate(BuildJsonFromHtml(page))
  BY <1>2 DEF AddBuildDate, BuildJsonFromHtml, Read
<1> QED
  BY <1>1, <1>2 DEF JsonOf

\* The counter that is shown at a port is the one pushed there.
LEMMA FirstCounter ==
    ASSUME NEW page, NEW json \in JsonOf(page), NEW p \in Ports
    PROVE  /\ CountersAt(json, p) # {} <=> Kept(page, p)
           /\ Kept(page, p) => FirstAt(json, p) = Counter(page, p)
<1> DEFINE c == Counters(page)
           at == CountersAt(json, p)
<1>0. json.counters = c
  BY JsonFields
<1>1. /\ \A i \in DOMAIN c : \E q \in Ports : Kept(page, q) /\ c[i] = Counter(page, q)
      /\ \A q \in Ports : Kept(page, q) => \E i \in DOMAIN c : c[i] = Counter(page, q)
      /\ DOMAIN c \subseteq Nat
  <2>1. Lists(c, page, Ports)
    BY CountersListed
  <2> HIDE DEF c
  <2>2. DOMAIN c = 1 .. Len(c) /\ Len(c) \in Nat
    BY <2>1 DEF Lists
  <2> QED
    BY <2>1, <2>2 DEF Lists
<1>2. \A q \in Ports : <<Counter(page, q).outputPort, Counter(page, q).inputPort>> = q
  BY DEF Counter, Ports
<1>3. \A i \in at : i \in DOMAIN c /\ Kept(page, p) /\ c[i] = Counter(page, p)
  BY <1>0, <1>1, <1>2 DEF CountersAt, PortsOf
<1>4. Kept(page, p) => at # {}
  BY <1>0, <1>1, <1>2 DEF CountersAt, PortsOf
<1>5. ASSUME at # {} PROVE Min(at) \in at
  <2>1. at \subseteq Nat
    BY <1>1, <1>3
  <2> HIDE DEF at
  <2>2. \E x \in at : \A y \in at : x <= y
    BY <1>5, <2>1, Least
  <2> QED
    BY <2>2 DEF Min
<1> QED
  BY <1>0, <1>3, <1>4, <1>5 DEF FirstAt

LEMMA NamesShown ==
    ASSUME NEW page, IsPage(page), NEW json \in JsonOf(page), NEW p \in Ports
    PROVE  /\ Shows(json, p) <=> page.name[p] # ""
           /\ Shows(json, p) => /\ FirstAt(json, p).mqttname = page.name[p]
                                /\ FirstAt(json, p).divider = NumberOf(page.divider[p])
<1>1. /\ Counter(page, p).unconfigured = (page.name[p] = "")
      /\ page.name[p] # "" => /\ Counter(page, p).mqttname = page.name[p]
                              /\ Counter(page, p).divider = NumberOf(page.divider[p])
  BY DEF Counter
<1> QED
  BY <1>1, FirstCounter DEF Shows, Kept

\* The outputs in the JSON: the one that stands for none, then all in turn.
LEMMA OutputsOfPage ==
    ASSUME NEW page, NEW json \in JsonOf(page)
    PROVE  /\ DOMAIN json.outputs = 1 .. NumOuts + 1
           /\ json.outputs[1] = NoOutputs
           /\ \A i \in 2 .. NumOuts + 1 : json.outputs[i] = AddOutput(page, i - 2)
<1> DEFINE outs == json.outputs
           s == [i \in 1 .. NumOuts |-> AddOutput(page, i - 1)]
           R == {NoOutputs} \cup {AddOutput(page, i - 1) : i \in 1 .. NumOuts}
<1>0. NumOuts \in Nat
  BY FormAssumption
<1>1. /\ s \in Seq(R) /\ <<NoOutputs>> \in Seq(R) /\ Len(s) = NumOuts
      /\ Len(<<NoOutputs>>) = 1 /\ <<NoOutputs>>[1] = NoOutputs
  <2>1. s \in [1 .. NumOuts -> R]
    OBVIOUS
  <2>2. NoOutputs \in R
    OBVIOUS
  <2> HIDE DEF s, R
  <2> QED
    BY <1>0, <2>1, <2>2
<1>2. outs = <<NoOutputs>> \o s
  BY JsonFields
<1> HIDE DEF s, R
<1>3. /\ Len(outs) = 1 + NumOuts /\ outs \in Seq(R)
      /\ \A i \in 1 .. 1 + NumOuts : outs[i] = IF i <= 1 THEN <<NoOutputs>>[i] ELSE s[i - 1]
  BY <1>1, <1>2, ConcatProperties
<1>4. \A i \in 2 .. NumOuts + 1 : i - 1 \in 1 .. NumOuts /\ (i - 1) - 1 = i - 2
      /\ i \in 1 .. 1 + NumOuts /\ ~ (i <= 1)
  BY <1>0
<1>5. DOMAIN outs = 1 .. NumOuts + 1
  BY <1>0, <1>3
<1> HIDE DEF outs
<1>6. outs[1] = NoOutputs
  BY <1>0, <1>1, <1>3
<1>7. ASSUME NEW i \in 2 .. NumOuts + 1 PROVE outs[i] = AddOutput(page, i - 2)
  <2>1. outs[i] = s[i - 1]
    BY <1>3, <1>4
  <2> QED
    BY <1>4, <2>1 DEF s
<1> QED
  BY <1>5, <1>6, <1>7 DEF outs

LEMMA TypesShown ==
    ASSUME NEW page, NEW json \in JsonOf(page), NEW o \in Outs
    PROVE  TypeOf(json, o) = page.type[o]
<1> DEFINE outs == json.outputs
           at == {i \in DOMAIN outs : outs[i].port = o}
<1>0. NumOuts \in Nat /\ NumOuts <= NoOutput /\ NoOutput \in Nat
  BY FormAssumption DEF NoOutput
<1> HIDE DEF at
<1>1. \A x : AddOutput(page, x).port = x /\ AddOutput(page, x).type = page.type[x]
  BY DEF AddOutput
<1>2. /\ DOMAIN outs = 1 .. NumOuts + 1 /\ outs[1] = NoOutputs
      /\ \A i \in 2 .. NumOuts + 1 : outs[i] = AddOutput(page, i - 2)
  BY OutputsOfPage
<1> HIDE DEF outs
<1>3. o + 2 \in 2 .. NumOuts + 1 /\ (o + 2) - 2 = o /\ o # NoOutput
  BY <1>0 DEF Outs
<1>4. at = {o + 2}
  <2>1. \A i \in 2 .. NumOuts + 1 : outs[i].port = i - 2
    BY <1>1, <1>2
  <2>2. outs[1].port # o
    BY <1>2, <1>3 DEF NoOutputs
  <2>3. /\ \A i \in 1 .. NumOuts + 1 : i = 1 \/ i \in 2 .. NumOuts + 1
        /\ \A i \in 2 .. NumOuts + 1 : i - 2 = o => i = o + 2
        /\ 2 .. NumOuts + 1 \subseteq 1 .. NumOuts + 1
    BY <1>0
  <2> QED
    BY <1>2, <1>3, <2>1, <2>2, <2>3 DEF at
<1>5. at # {} /\ Max(at) = o + 2
  <2>1. \A x \in {o + 2} : x <= x
    BY DEF Outs
  <2> QED
    BY <1>4, <2>1 DEF Max
<1>6. outs[o + 2].type = page.type[o]
  BY <1>1, <1>2, <1>3
<1> QED
  BY <1>5, <1>6 DEF TypeOf, at, outs

\* A blank divider and one of 0 are shown as blank.
DividerShown(page, p) ==
    IF page.name[p] # "" /\ NumberOf(page.divider[p]) # 0 THEN NumberOf(page.divider[p]) ELSE Blank

LEMMA Shown ==
    ASSUME NEW page, IsPage(page), NEW json \in JsonOf(page)
    PROVE  LET shown == BuildConfigHtml(json)
           IN  /\ shown.input =
                     [f \in PageTexts |-> IF f \in SavedTexts THEN page.input[f] ELSE ""]
               /\ shown.method = page.method
               /\ shown.type = page.type
               /\ shown.name = page.name
               /\ shown.divider = [p \in Ports |-> DividerShown(page, p)]
               /\ shown.list = [f \in DOMAIN Sizes |->
                                   BuildScheduleString(Read(page, f), Sizes[f])]
<1> DEFINE shown == BuildConfigHtml(json)
<1>1. shown.input = [f \in PageTexts |-> IF f \in SavedTexts THEN page.input[f] ELSE ""]
  <2>1. json.text = [f \in SavedTexts |-> page.input[f]]
    BY JsonFields
  <2>2. \A f \in SavedTexts : Text(json, f) = page.input[f]
    BY <2>1 DEF Text
  <2>3. shown.input = [f \in PageTexts |-> IF f \in SavedTexts THEN Text(json, f) ELSE ""]
    BY DEF BuildConfigHtml
  <2> HIDE DEF shown
  <2>4. \A f \in PageTexts : (IF f \in SavedTexts THEN Text(json, f) ELSE "")
                             = (IF f \in SavedTexts THEN page.input[f] ELSE "")
    BY <2>2
  <2> QED
    BY <2>3, <2>4
<1>2. shown.method = page.method
  BY JsonFields DEF BuildConfigHtml
<1>3. shown.type = page.type
  <2>1. shown.type = [o \in Outs |-> TypeOf(json, o)]
    BY DEF BuildConfigHtml
  <2>2. page.type = [o \in Outs |-> page.type[o]]
    BY DEF IsPage
  <2> HIDE DEF shown
  <2> QED
    BY <2>1, <2>2, TypesShown
<1>4. shown.name = page.name
  <2>1. shown.name = [p \in Ports |-> IF Shows(json, p) THEN FirstAt(json, p).mqttname ELSE ""]
    BY DEF BuildConfigHtml
  <2>2. page.name = [p \in Ports |-> page.name[p]]
    BY DEF IsPage
  <2>3. \A p \in Ports : (IF Shows(json, p) THEN FirstAt(json, p).mqttname ELSE "")
                         = page.name[p]
    BY NamesShown
  <2> HIDE DEF shown
  <2> QED
    BY <2>1, <2>2, <2>3
<1>5. shown.divider = [p \in Ports |-> DividerShown(page, p)]
  <2> DEFINE first(p) == IF Shows(json, p) /\ FirstAt(json, p).divider # 0
                         THEN FirstAt(json, p).divider ELSE Blank
  <2>1. shown.divider = [p \in Ports |-> first(p)]
    BY DEF BuildConfigHtml
  <2>2. \A p \in Ports : first(p) = DividerShown(page, p)
    BY NamesShown DEF DividerShown
  <2> HIDE DEF shown, first
  <2> QED
    BY <2>1, <2>2
<1>6. shown.list = [f \in DOMAIN Sizes |-> BuildScheduleString(Read(page, f), Sizes[f])]
  <2>1. shown.list = [f \in DOMAIN Sizes |-> BuildScheduleString(json.schedule[f], Sizes[f])]
    BY DEF BuildConfigHtml
  <2>2. \A f \in DOMAIN Sizes : json.schedule[f] = Read(page, f)
    <3>1. json.schedule = [f \in DOMAIN Sizes |-> Read(page, f)]
      BY JsonFields
    <3> QED
      BY <3>1
  <2> HIDE DEF shown
  <2> QED
    BY <2>1, <2>2
<1> QED
  BY <1>1, <1>2, <1>3, <1>4, <1>5, <1>6

LEMMA SizesType == \A f \in DOMAIN Sizes : Sizes[f] \in {24, 60} /\ Sizes[f] \in Nat \ {0}
BY DEF Sizes

\* The page that is opened with the JSON of a page shows its fields, but the name of the NTP
\* server and a divider of 0.
THEOREM FormShown ==
    ASSUME NEW page, IsPage(page), NEW json \in JsonOf(page)
    PROVE  SameFields(BuildConfigHtml(json), page)
<1> DEFINE shown == BuildConfigHtml(json)
<1>0. /\ shown.input = [f \in PageTexts |-> IF f \in SavedTexts THEN page.input[f] ELSE ""]
      /\ shown.method = page.method
      /\ shown.type = page.type /\ shown.name = page.name
      /\ shown.divider = [p \in Ports |-> DividerShown(page, p)]
      /\ shown.list = [f \in DOMAIN Sizes |-> BuildScheduleString(Read(page, f), Sizes[f])]
  BY Shown
<1> HIDE DEF shown
<1>1. ASSUME NEW p \in Ports
      PROVE  /\ shown.name[p] = "" => shown.divider[p] = Blank
             /\ shown.name[p] # "" /\ page.divider[p] > 0 => shown.divider[p] = page.divider[p]
  <2>1. shown.divider[p] = DividerShown(page, p) /\ shown.name[p] = page.name[p]
    BY <1>0
  <2>2. page.divider[p] \in Nat \cup {Blank}
    BY DEF IsPage, Dividers
  <2>3. page.divider[p] > 0 => NumberOf(page.divider[p]) = page.divider[p] /\ page.divider[p] # 0
    BY <2>2 DEF NumberOf, Blank
  <2> QED
    BY <2>1, <2>3 DEF DividerShown
<1>3. \A f \in SavedTexts : shown.input[f] = page.input[f]
  BY <1>0 DEF PageTexts
<1>2. ASSUME NEW f \in DOMAIN Sizes
      PROVE  LET a == Read(page, f)
             IN  Read(shown, f) = a <=> Len(a) = Sizes[f] \/ ~ RunBeforeOther(a)
  <2> DEFINE a == Read(page, f)
  <2>1. Read(shown, f) = Resaved(a, Sizes[f])
    BY <1>0 DEF Read, Resaved
  <2>2. CASE a = <<>>
    <3>1. Resaved(<<>>, Sizes[f]) = <<>>
      BY SizesType, NothingResaved
    <3>2. ~ RunBeforeOther(<<>>)
      BY DEF RunBeforeOther
    <3> QED
      BY <2>1, <2>2, <3>1, <3>2
  <2>3. CASE Listing(a, Sizes[f])
    <3> HIDE DEF a
    <3>1. Resaved(a, Sizes[f]) = a <=> Len(a) = Sizes[f] \/ ~ RunBeforeOther(a)
      BY <2>3, SizesType, ResavedLists
    <3> QED
      BY <2>1, <3>1 DEF a
  <2> QED
    BY <2>2, <2>3 DEF IsPage
<1> QED
  BY <1>0, <1>1, <1>2, <1>3 DEF SameFields, shown

------------------------------------------------------------------------------
(* What the device reads                                                    *)

LEMMA ListLoaded ==
    ASSUME NEW max \in {24, 60}, NEW a, a = <<>> \/ Listing(a, max)
    PROVE  [i \in DOMAIN a |-> AsInt(a[i])] = a
<1>1. /\ a = [i \in DOMAIN a |-> a[i]]
      /\ \A i \in DOMAIN a : a[i] \in 0 .. max - 1
  <2>1. CASE a = <<>>
    BY <2>1
  <2>2. CASE Listing(a, max)
    BY <2>2 DEF Listing
  <2> QED
    BY <2>1, <2>2
<1>2. \A n \in 0 .. max - 1 : AsInt(n) = n
  BY FormAssumption DEF AsInt, NoOutput
<1> QED
  BY <1>1, <1>2

\* What the device reads of the counter that is pushed at a port.
LEMMA CounterLoaded ==
    ASSUME NEW page, IsPage(page), NEW p \in Ports
    PROVE  LET counter == CounterConfigLoad(Counter(page, p))
           IN  /\ PortsOf(counter) = p
               /\ counter.mqttname = IF page.name[p] # "" THEN page.name[p] ELSE Unknown(p)
               /\ page.name[p] # "" /\ page.divider[p] \in 1 .. INT_MAX =>
                     counter.divider = page.divider[p]
<1>1. Unsigned(p[1]) = p[1] /\ p = <<p[1], p[2]>>
  <2>1. p[1] \in Outs \cup {NoOutput} /\ p = <<p[1], p[2]>>
    BY DEF Ports
  <2>2. p[1] \in 0 .. 255
    BY <2>1, FormAssumption DEF Outs, NoOutput
  <2> QED
    BY <2>1, <2>2 DEF Unsigned
<1>2. PortsOf(CounterConfigLoad(Counter(page, p))) = p
  <2>1. Counter(page, p).outputPort = p[1] /\ Counter(page, p).inputPort = p[2]
    BY DEF Counter
  <2> QED
    BY <1>1, <2>1 DEF PortsOf, CounterConfigLoad
<1>3. CounterConfigLoad(Counter(page, p)).mqttname =
         IF page.name[p] # "" THEN page.name[p] ELSE Unknown(p)
  BY DEF CounterConfigLoad, Counter
<1>4. ASSUME page.name[p] # "", page.divider[p] \in 1 .. INT_MAX
      PROVE  CounterConfigLoad(Counter(page, p)).divider = page.divider[p]
  <2>0. \A n \in 1 .. INT_MAX : NumberOf(n) = n /\ AsInt(n) = n
    BY FormAssumption DEF NumberOf, Blank, AsInt
  <2>1. NumberOf(page.divider[p]) = page.divider[p] /\ AsInt(page.divider[p]) = page.divider[p]
    BY <1>4, <2>0
  <2> QED
    BY <1>4, <2>1 DEF CounterConfigLoad, Counter
<1> QED
  BY <1>2, <1>3, <1>4

LEMMA CountersLoaded ==
    ASSUME NEW page, IsPage(page), NEW json \in JsonOf(page)
    PROVE  LET config == ConfigLoad(json)
           IN  /\ config.counters =
                     [i \in DOMAIN Counters(page) |-> CounterConfigLoad(Counters(page)[i])]
               /\ CountersAsShown(config.counters, page)
<1> DEFINE config == ConfigLoad(json)
           counters == config.counters
           c == Counters(page)
           name(p) == IF page.name[p] # "" THEN page.name[p] ELSE Unknown(p)
<1>1. counters = [i \in DOMAIN c |-> CounterConfigLoad(c[i])]
  BY JsonFields DEF ConfigLoad
<1>2. /\ \A i \in DOMAIN c : \E q \in Ports : Kept(page, q) /\ c[i] = Counter(page, q)
      /\ \A q \in Ports : Kept(page, q) => \E i \in DOMAIN c : c[i] = Counter(page, q)
  BY CountersListed DEF Lists
<1>3. MetersOf(page) = {<<p, name(p)>> : p \in {q \in Ports : Kept(page, q)}}
  BY DEF MetersOf, Kept
<1> HIDE DEF counters, c, name
<1>4. ASSUME NEW i \in DOMAIN counters
      PROVE  \E q \in Ports : Kept(page, q) /\ counters[i] = CounterConfigLoad(Counter(page, q))
  BY <1>1, <1>2
<1>5. \A q \in Ports : Kept(page, q) =>
         \E i \in DOMAIN counters : counters[i] = CounterConfigLoad(Counter(page, q))
  BY <1>1, <1>2
<1>6. \A q \in Ports : /\ PortsOf(CounterConfigLoad(Counter(page, q))) = q
                       /\ CounterConfigLoad(Counter(page, q)).mqttname = name(q)
  BY CounterLoaded DEF name
<1>7. {<<PortsOf(counters[i]), counters[i].mqttname>> : i \in DOMAIN counters} = MetersOf(page)
  <2>1. ASSUME NEW i \in DOMAIN counters
        PROVE  <<PortsOf(counters[i]), counters[i].mqttname>> \in MetersOf(page)
    <3>1. PICK q \in Ports : Kept(page, q) /\ counters[i] = CounterConfigLoad(Counter(page, q))
      BY <1>4
    <3>2. PortsOf(counters[i]) = q /\ counters[i].mqttname = name(q)
      BY <1>6, <3>1
    <3> QED
      BY <1>3, <3>1, <3>2
  <2>2. ASSUME NEW m \in MetersOf(page)
        PROVE  \E i \in DOMAIN counters : m = <<PortsOf(counters[i]), counters[i].mqttname>>
    <3>1. PICK q \in Ports : Kept(page, q) /\ m = <<q, name(q)>>
      BY <1>3
    <3>2. PICK i \in DOMAIN counters : counters[i] = CounterConfigLoad(Counter(page, q))
      BY <1>5, <3>1
    <3>3. PortsOf(counters[i]) = q /\ counters[i].mqttname = name(q)
      BY <1>6, <3>2
    <3> QED
      BY <3>1, <3>3
  <2> QED
    BY <2>1, <2>2
<1>8. ASSUME NEW i \in DOMAIN counters, NEW p, p = PortsOf(counters[i]),
             page.name[p] # "", page.divider[p] \in 1 .. INT_MAX
      PROVE  counters[i].divider = page.divider[p]
  <2>1. PICK q \in Ports : counters[i] = CounterConfigLoad(Counter(page, q))
    BY <1>4
  <2>2. p = q
    BY <1>6, <1>8, <2>1
  <2> QED
    BY <1>8, <2>1, <2>2, CounterLoaded
<1>9. CountersAsShown(counters, page)
  BY <1>7, <1>8 DEF CountersAsShown
<1> QED
  BY <1>1, <1>9 DEF counters, c

\* The texts the device reads.
LEMMA TextsLoaded ==
    ASSUME NEW page, IsPage(page), NEW json \in JsonOf(page)
    PROVE  LET config == ConfigLoad(json)
           IN  /\ \A f \in SavedTexts \ {"topic"} : config.text[f] = page.input[f]
               /\ config.method = page.method
<1> DEFINE config == ConfigLoad(json)
<1>1. json.text = [f \in SavedTexts |-> page.input[f]]
  BY JsonFields
<1>2. \A f \in SavedTexts : Text(json, f) = page.input[f]
  BY <1>1 DEF Text
<1>3. \A f \in MqttTexts \ {"topic"} : MqttConfigLoad(json)[f] = page.input[f]
  BY <1>2 DEF MqttConfigLoad, SavedTexts
<1>4. \A f \in NetworkTexts : NetworkConfigLoad(json)[f] = page.input[f]
  BY <1>2 DEF NetworkConfigLoad, SavedTexts
<1>5. config.text = [f \in PageTexts |->
          IF f \in MqttTexts THEN MqttConfigLoad(json)[f] ELSE NetworkConfigLoad(json)[f]]
  BY DEF ConfigLoad
<1>6. config.method = page.method
  BY JsonFields DEF ConfigLoad
<1> HIDE DEF config
<1>7. ASSUME NEW f \in SavedTexts \ {"topic"} PROVE config.text[f] = page.input[f]
  <2>1. CASE f \in MqttTexts
    BY <1>3, <1>5, <2>1 DEF PageTexts
  <2>2. CASE f \notin MqttTexts
    BY <1>4, <1>5, <2>2 DEF PageTexts, SavedTexts
  <2> QED
    BY <2>1, <2>2
<1> QED
  BY <1>6, <1>7 DEF config

\* What is required is what the client logs in with.
LEMMA RequiredTexts ==
    ASSUME NEW config
    PROVE  CheckConfiguration(config) <=>
              /\ "" \notin {config.text[f] : f \in {"mqtturl", "topic"}}
              /\ "" \notin {Credentials(config)[f] : f \in DOMAIN Credentials(config)}
<1>1. Credentials(config) = [f \in Required(config.method) |-> config.text[f]]
  BY DEF Credentials, Required
<1> QED
  BY <1>1 DEF CheckConfiguration

\* The device has what the page shows, but the NTP server; of a divider only if it is a
\* positive int.
THEOREM FormLoaded ==
    ASSUME NEW page, IsPage(page), NEW json \in JsonOf(page)
    PROVE  IsAsShown(ConfigLoad(json), page)
<1> DEFINE config == ConfigLoad(json)
<1>1. CountersAsShown(config.counters, page)
  BY CountersLoaded
<1>2. ASSUME NEW i \in DOMAIN config.outputs, config.outputs[i].port \in Outs
      PROVE  config.outputs[i].type = page.type[config.outputs[i].port]
  <2> DEFINE outs == json.outputs
             o == config.outputs[i].port
  <2>1. /\ DOMAIN outs = 1 .. NumOuts + 1 /\ outs[1] = NoOutputs
        /\ \A k \in 2 .. NumOuts + 1 : outs[k] = AddOutput(page, k - 2)
    BY OutputsOfPage
  <2>2. DOMAIN config.outputs = DOMAIN outs /\ config.outputs[i] = OutputConfigLoad(outs[i])
    BY DEF ConfigLoad
  <2>3. NumOuts \in Nat /\ NumOuts <= 255 /\ INT_MAX \in Nat /\ INT_MAX >= 255
    BY FormAssumption DEF NoOutput
  <2> HIDE DEF config, outs
  <2>4. CASE i = 1
    <3>1. config.outputs[i].port = 255
      BY <2>1, <2>2, <2>3, <2>4 DEF OutputConfigLoad, NoOutputs, NoOutput, AsInt
    <3> QED
      BY <1>2, <2>3, <3>1 DEF Outs
  <2>5. CASE i # 1
    <3>1. i \in 2 .. NumOuts + 1 /\ i - 2 \in Outs /\ i - 2 <= INT_MAX
      BY <2>1, <2>2, <2>3, <2>5 DEF Outs
    <3>2. config.outputs[i] = OutputConfigLoad(AddOutput(page, i - 2))
      BY <2>1, <2>2, <3>1
    <3>3. page.type[i - 2] \in -1 .. 1
      BY <3>1 DEF IsPage
    <3>4. AsInt(i - 2) = i - 2 /\ AsInt(page.type[i - 2]) = page.type[i - 2]
      BY <2>3, <3>1, <3>3 DEF AsInt
    <3> QED
      BY <3>2, <3>4 DEF OutputConfigLoad, AddOutput
  <2> QED
    BY <2>4, <2>5
<1>3. (\A f \in SavedTexts \ {"topic"} : config.text[f] = page.input[f])
      /\ config.method = page.method
  BY TextsLoaded
<1>4. ASSUME NEW f \in DOMAIN Sizes PROVE config.schedule[f] = Read(page, f)
  <2>1. json.schedule[f] = Read(page, f)
    <3>1. json.schedule = [g \in DOMAIN Sizes |-> Read(page, g)]
      BY JsonFields
    <3> QED
      BY <3>1
  <2>2. config.schedule[f] = [i \in DOMAIN json.schedule[f] |-> AsInt(json.schedule[f][i])]
    BY DEF ConfigLoad, ScheduleConfigLoad
  <2>3. Read(page, f) = <<>> \/ Listing(Read(page, f), Sizes[f])
    BY DEF IsPage
  <2> HIDE DEF config
  <2> QED
    BY <2>1, <2>2, <2>3, SizesType, ListLoaded
<1>5. CheckConfiguration(config) <=>
          /\ "" \notin {config.text[f] : f \in {"mqtturl", "topic"}}
          /\ "" \notin {Credentials(config)[f] : f \in DOMAIN Credentials(config)}
  BY RequiredTexts
<1> HIDE DEF config
<1> QED
  BY <1>1, <1>2, <1>3, <1>4, <1>5 DEF IsAsShown, config

------------------------------------------------------------------------------
(* The slots of the pulse counter                                           *)

\* As many direct ports as lines.
LEMMA DirectPorts ==
    LET D == {p \in Ports : Direct(p)}
        M == {p \in Ports : ~ Direct(p)}
    IN  IsFiniteSet(D) /\ Cardinality(D) = NumIns /\ IsFiniteSet(M)
<1> DEFINE D == {p \in Ports : Direct(p)}
           M == {p \in Ports : ~ Direct(p)}
<1>1. NumIns \in Nat /\ NumOuts \in Nat
  BY FormAssumption
<1>2. IsFiniteSet(Ins) /\ Cardinality(Ins) = NumIns /\ IsFiniteSet(Outs)
  <2>1. \A n \in Nat : 0 \in Int /\ n - 1 \in Int /\ (0 > n - 1 <=> n = 0) /\ n - 1 - 0 + 1 = n
    OBVIOUS
  <2> QED
    BY <1>1, <2>1, FS_Interval DEF Ins, Outs
<1>3. IsFiniteSet({NoOutput}) /\ Cardinality({NoOutput}) = 1
  BY FS_Singleton
<1>4. D = {NoOutput} \X Ins
  BY DEF Ports, Direct
<1>5. IsFiniteSet(D) /\ Cardinality(D) = 1 * NumIns
  BY <1>2, <1>3, <1>4, FS_Product
<1>6. IsFiniteSet(Outs \X Ins)
  BY <1>2, FS_Product
<1>7. M \subseteq Outs \X Ins
  BY DEF Ports, Direct
<1>8. IsFiniteSet(M)
  <2> HIDE DEF M
  <2> QED
    BY <1>6, <1>7, FS_Subset
<1> QED
  BY <1>1, <1>5, <1>8

\* The pulse counter has a slot for all direct meters, and for all of the matrix when the
\* direct lines leave room for them.
THEOREM FormServed == ASSUME NEW page, IsPage(page) PROVE Served(page)
<1> DEFINE json == BuildJsonFromHtml(page)
           config == ConfigLoad(json)
           c == Counters(page)
           D == {p \in Ports : Direct(p)}
           N == {p \in Ports : ~ Direct(p) /\ page.name[p] # ""}
           K == {p \in Ports : Kept(page, p)}
           without == DOMAIN config.counters \ WithSlot(config)
<1>0. NumIns \in Nat /\ Slots \in Nat /\ Slots >= NumIns
  BY FormAssumption
<1>1. json \in JsonOf(page)
  BY DEF JsonOf
<1>2. /\ c \in Seq({Counter(page, p) : p \in Ports})
      /\ Len(c) = Cardinality(K)
      /\ \A i \in DOMAIN c : c[i].outputPort = NoOutput <=> i <= Cardinality(D)
      /\ \A i \in DOMAIN c : \E p \in Ports : c[i] = Counter(page, p)
  BY CountersListed DEF Lists
<1>3. DOMAIN c = 1 .. Len(c) /\ Len(c) \in Nat
  <2> HIDE DEF c
  <2> QED
    BY <1>2
<1>4. IsFiniteSet(D) /\ Cardinality(D) = NumIns /\ IsFiniteSet({p \in Ports : ~ Direct(p)})
  BY DirectPorts
<1>5. IsFiniteSet(N) /\ Cardinality(N) \in Nat
  <2>1. N \subseteq {p \in Ports : ~ Direct(p)}
    OBVIOUS
  <2> HIDE DEF N
  <2> QED
    BY <1>4, <2>1, FS_Subset, FS_CardinalityType
<1>6. Len(c) = NumIns + Cardinality(N)
  <2>1. K = D \cup N /\ D \cap N = {}
    BY DEF Kept
  <2> HIDE DEF K, D, N
  <2>2. Cardinality(D \cup N) = Cardinality(D) + Cardinality(N)
    <3>1. Cardinality(D \cap N) = 0
      BY <2>1, FS_EmptySet
    <3>2. Cardinality(D \cup N) = Cardinality(D) + Cardinality(N) - Cardinality(D \cap N)
      BY <1>4, <1>5, FS_Union
    <3> QED
      BY <1>0, <1>4, <1>5, <3>1, <3>2
  <2> QED
    BY <1>2, <1>4, <2>1, <2>2
<1>7. config.counters = [i \in DOMAIN c |-> CounterConfigLoad(c[i])]
  BY <1>1, CountersLoaded
<1>8. without = Slots + 1 .. Len(c)
  <2> HIDE DEF config, c
  <2>1. DOMAIN config.counters = 1 .. Len(c)
    BY <1>3, <1>7
  <2> QED
    BY <1>0, <1>3, <2>1 DEF WithSlot
<1>9. ASSUME NEW i \in without PROVE config.counters[i].outputPort # NoOutput
  <2>1. i \in DOMAIN c /\ ~ (i <= NumIns)
    <3> HIDE DEF without, c
    <3> QED
      BY <1>0, <1>3, <1>8
  <2>2. c[i].outputPort # NoOutput
    BY <1>2, <1>4, <2>1
  <2>3. c[i].outputPort \in Outs \cup {NoOutput}
    <3>1. \A p \in Ports : Counter(page, p).outputPort \in Outs \cup {NoOutput}
      BY DEF Counter, Ports
    <3>2. PICK p \in Ports : c[i] = Counter(page, p)
      BY <1>2, <2>1
    <3> HIDE DEF c
    <3> QED
      BY <3>1, <3>2
  <2>4. config.counters[i] = CounterConfigLoad(c[i])
    BY <1>7, <2>1
  <2> HIDE DEF config, c
  <2>5. c[i].outputPort \in 0 .. 255
    BY <2>2, <2>3, FormAssumption DEF Outs, NoOutput
  <2> QED
    BY <2>2, <2>4, <2>5 DEF CounterConfigLoad, Unsigned
<1>10. Cardinality(N) <= Slots - NumIns => without = {}
  <2> HIDE DEF without, c, N
  <2>1. Cardinality(N) <= Slots - NumIns => Len(c) <= Slots
    BY <1>0, <1>5, <1>6
  <2> QED
    BY <1>0, <1>3, <1>8, <2>1
<1> HIDE DEF without, c, N
<1> QED
  BY <1>9, <1>10 DEF Served, without, N

------------------------------------------------------------------------------
(* The pages of the posts and what is edited in them                        *)

\* The texts that are typed are read as ascending lists.
LEMMA TypedTexts ==
    ASSUME NEW max \in {24, 60},
           NEW v \in Typed
    PROVE  BuildTimeArray(v, max) = <<>> \/ Listing(BuildTimeArray(v, max), max)
<1>0. max \in Nat \ {0}
  OBVIOUS
<1>1. CASE v = Star
  BY <1>0, <1>1, StarRead
<1>2. CASE v = Parts(<<>>)
  BY <1>2, NothingRead
<1>3. CASE v = Parts(<<<<0>>, <<20, 23>>>>)
  <2>1. BuildTimeArray(v, max) = Numbers(<<0>>) \o Numbers(<<20, 23>>)
    <3>1. <<0>> \in Seq(Int) /\ <<20, 23>> \in Seq(Int)
      OBVIOUS
    <3> QED
      BY <1>3, <3>1, TwoParts
  <2>2. Numbers(<<0>>) = <<0>> /\ Listing(<<0>>, max)
    <3>1. 0 \in 0 .. max - 1
      OBVIOUS
    <3> QED
      BY <1>0, <3>1, SingleListing
  <2>3. 20 \in 0 .. max - 1 /\ 23 \in 20 .. max - 1
    OBVIOUS
  <2>4. Listing(Numbers(<<20, 23>>), max) /\ Numbers(<<20, 23>>)[1] = 20
    <3>1. PICK a : a = Numbers(<<20, 23>>)
      OBVIOUS
    <3>2. Listing(a, max) /\ a[1] = 20
      BY <1>0, <2>3, <3>1, RangeListing
    <3> QED
      BY <3>1, <3>2
  <2>5. <<0>>[Len(<<0>>)] < 20
    OBVIOUS
  <2> QED
    BY <1>0, <2>1, <2>2, <2>4, <2>5, JoinedListing
<1>4. CASE v = Parts(<<<<5, 6>>, <<9>>>>)
  <2>1. BuildTimeArray(v, max) = Numbers(<<5, 6>>) \o Numbers(<<9>>)
    <3>1. <<9>> \in Seq(Int) /\ <<5, 6>> \in Seq(Int)
      OBVIOUS
    <3> QED
      BY <1>4, <3>1, TwoParts
  <2>2. Numbers(<<9>>) = <<9>> /\ Listing(<<9>>, max)
    <3>1. 9 \in 0 .. max - 1
      OBVIOUS
    <3> QED
      BY <1>0, <3>1, SingleListing
  <2>3. 5 \in 0 .. max - 1 /\ 6 \in 5 .. max - 1
    OBVIOUS
  <2>4. Listing(Numbers(<<5, 6>>), max) /\ Numbers(<<5, 6>>)[Len(Numbers(<<5, 6>>))] = 6
    <3>1. PICK a : a = Numbers(<<5, 6>>)
      OBVIOUS
    <3>2. Listing(a, max) /\ a[Len(a)] = 6
      BY <1>0, <2>3, <3>1, RangeListing
    <3> QED
      BY <3>1, <3>2
  <2>5. 6 < <<9>>[1]
    OBVIOUS
  <2> QED
    BY <1>0, <2>1, <2>2, <2>4, <2>5, JoinedListing
<1> QED
  BY <1>1, <1>2, <1>3, <1>4 DEF Typed

\* A page with one field changed is a page.
LEMMA ChangedPage ==
    ASSUME NEW page, IsPage(page), NEW e, HasFields(e), e.list = page.list,
           e.input = [f \in PageTexts |-> e.input[f]], e.method \in 0 .. 2,
           e.type \in [Outs -> -1 .. 1], e.name = [p \in Ports |-> e.name[p]],
           e.divider \in [Ports -> Dividers]
    PROVE  IsPage(e)
BY DEF IsPage, Read

LEMMA EditedInput ==
    ASSUME NEW page, IsPage(page), NEW f, NEW v
    PROVE  IsPage(TypeText(page, f, v))
<1> DEFINE e == TypeText(page, f, v)
<1>0. HasFields(page)
  BY DEF IsPage
<1>1. HasFields(e)
  BY <1>0 DEF HasFields, TypeText
<1>2. /\ e.input = [page.input EXCEPT ![f] = v]
      /\ e.list = page.list /\ e.method = page.method
      /\ e.type = page.type /\ e.name = page.name /\ e.divider = page.divider
  BY <1>0 DEF HasFields, TypeText
<1> HIDE DEF e
<1>3. e.input = [g \in PageTexts |-> e.input[g]]
  BY <1>2 DEF IsPage
<1>4. /\ e.input = [g \in PageTexts |-> e.input[g]] /\ e.method \in 0 .. 2
      /\ e.type \in [Outs -> -1 .. 1] /\ e.name = [p \in Ports |-> e.name[p]]
      /\ e.divider \in [Ports -> Dividers]
  BY <1>2, <1>3 DEF IsPage
<1>5. IsPage(e)
  BY <1>1, <1>2, <1>4, ChangedPage
<1> QED
  BY <1>5 DEF e

LEMMA EditedMethod ==
    ASSUME NEW page, IsPage(page), NEW v \in 0 .. 2
    PROVE  IsPage(ChooseMethod(page, v))
<1> DEFINE e == ChooseMethod(page, v)
<1>0. HasFields(page)
  BY DEF IsPage
<1>1. HasFields(e)
  BY <1>0 DEF HasFields, ChooseMethod
<1>2. /\ e.method = v
      /\ e.input = page.input /\ e.list = page.list
      /\ e.type = page.type /\ e.name = page.name /\ e.divider = page.divider
  BY <1>0 DEF HasFields, ChooseMethod
<1> HIDE DEF e
<1>3. e.method \in 0 .. 2
  BY <1>2 DEF IsPage
<1>4. /\ e.input = [g \in PageTexts |-> e.input[g]] /\ e.method \in 0 .. 2
      /\ e.type \in [Outs -> -1 .. 1] /\ e.name = [p \in Ports |-> e.name[p]]
      /\ e.divider \in [Ports -> Dividers]
  BY <1>2, <1>3 DEF IsPage
<1>5. IsPage(e)
  BY <1>1, <1>2, <1>4, ChangedPage
<1> QED
  BY <1>5 DEF e

LEMMA EditedType ==
    ASSUME NEW page, IsPage(page), NEW o, NEW v \in -1 .. 1
    PROVE  IsPage(ChooseType(page, o, v))
<1> DEFINE e == ChooseType(page, o, v)
<1>0. HasFields(page)
  BY DEF IsPage
<1>1. HasFields(e)
  BY <1>0 DEF HasFields, ChooseType
<1>2. /\ e.type = [page.type EXCEPT ![o] = v]
      /\ e.input = page.input /\ e.list = page.list
      /\ e.method = page.method /\ e.name = page.name /\ e.divider = page.divider
  BY <1>0 DEF HasFields, ChooseType
<1> HIDE DEF e
<1>3. e.type \in [Outs -> -1 .. 1]
  BY <1>2 DEF IsPage
<1>4. /\ e.input = [g \in PageTexts |-> e.input[g]] /\ e.method \in 0 .. 2
      /\ e.type \in [Outs -> -1 .. 1] /\ e.name = [p \in Ports |-> e.name[p]]
      /\ e.divider \in [Ports -> Dividers]
  BY <1>2, <1>3 DEF IsPage
<1>5. IsPage(e)
  BY <1>1, <1>2, <1>4, ChangedPage
<1> QED
  BY <1>5 DEF e

LEMMA EditedName ==
    ASSUME NEW page, IsPage(page), NEW q, NEW v
    PROVE  IsPage(TypeName(page, q, v))
<1> DEFINE e == TypeName(page, q, v)
<1>0. HasFields(page)
  BY DEF IsPage
<1>1. HasFields(e)
  BY <1>0 DEF HasFields, TypeName
<1>2. /\ e.name = [page.name EXCEPT ![q] = v]
      /\ e.input = page.input /\ e.list = page.list
      /\ e.method = page.method /\ e.type = page.type /\ e.divider = page.divider
  BY <1>0 DEF HasFields, TypeName
<1> HIDE DEF e
<1>3. e.name = [p \in Ports |-> e.name[p]]
  BY <1>2 DEF IsPage
<1>4. /\ e.input = [g \in PageTexts |-> e.input[g]] /\ e.method \in 0 .. 2
      /\ e.type \in [Outs -> -1 .. 1] /\ e.name = [p \in Ports |-> e.name[p]]
      /\ e.divider \in [Ports -> Dividers]
  BY <1>2, <1>3 DEF IsPage
<1>5. IsPage(e)
  BY <1>1, <1>2, <1>4, ChangedPage
<1> QED
  BY <1>5 DEF e

LEMMA EditedDivider ==
    ASSUME NEW page, IsPage(page), NEW q, NEW v \in Dividers
    PROVE  IsPage(TypeDivider(page, q, v))
<1> DEFINE e == TypeDivider(page, q, v)
<1>0. HasFields(page)
  BY DEF IsPage
<1>1. HasFields(e)
  BY <1>0 DEF HasFields, TypeDivider
<1>2. /\ e.divider = [page.divider EXCEPT ![q] = v]
      /\ e.input = page.input /\ e.list = page.list
      /\ e.method = page.method /\ e.type = page.type /\ e.name = page.name
  BY <1>0 DEF HasFields, TypeDivider
<1> HIDE DEF e
<1>3. e.divider \in [Ports -> Dividers]
  BY <1>2 DEF IsPage
<1>4. /\ e.input = [g \in PageTexts |-> e.input[g]] /\ e.method \in 0 .. 2
      /\ e.type \in [Outs -> -1 .. 1] /\ e.name = [p \in Ports |-> e.name[p]]
      /\ e.divider \in [Ports -> Dividers]
  BY <1>2, <1>3 DEF IsPage
<1>5. IsPage(e)
  BY <1>1, <1>2, <1>4, ChangedPage
<1> QED
  BY <1>5 DEF e

LEMMA EditedList ==
    ASSUME NEW page, IsPage(page), NEW f \in DOMAIN Sizes, NEW v,
           BuildTimeArray(v, Sizes[f]) = <<>> \/ Listing(BuildTimeArray(v, Sizes[f]), Sizes[f])
    PROVE  IsPage(TypeList(page, f, v))
<1> DEFINE e == TypeList(page, f, v)
<1>0. HasFields(page)
  BY DEF IsPage
<1>1. HasFields(e)
  BY <1>0 DEF HasFields, TypeList
<1>2. /\ e.list = [page.list EXCEPT ![f] = v]
      /\ e.input = page.input /\ e.method = page.method
      /\ e.type = page.type /\ e.name = page.name /\ e.divider = page.divider
  BY <1>0 DEF HasFields, TypeList
<1> HIDE DEF e
<1>3. DOMAIN page.list = DOMAIN Sizes
  BY DEF IsPage
<1>4. \A g \in DOMAIN Sizes : e.list[g] = IF g = f THEN v ELSE page.list[g]
  BY <1>2, <1>3
<1>5. e.list = [g \in DOMAIN Sizes |-> e.list[g]]
  BY <1>2, <1>3
<1>6. \A g \in DOMAIN Sizes : Read(e, g) = <<>> \/ Listing(Read(e, g), Sizes[g])
  <2> SUFFICES ASSUME NEW g \in DOMAIN Sizes
               PROVE  Read(e, g) = <<>> \/ Listing(Read(e, g), Sizes[g])
    OBVIOUS
  <2>1. CASE g = f
    BY <1>4, <2>1 DEF Read
  <2>2. CASE g # f
    <3>1. Read(e, g) = Read(page, g)
      BY <1>4, <2>2 DEF Read
    <3> QED
      BY <3>1 DEF IsPage
  <2> QED
    BY <2>1, <2>2
<1> QED
  BY <1>1, <1>2, <1>5, <1>6 DEF IsPage, e

LEMMA Edited == ASSUME NEW page, IsPage(page) PROVE \A e \in EditedPages(page) : IsPage(e)
<1> DEFINE texts == {TypeText(page, f, v) : f \in PageTexts, v \in Names}
           methods == {ChooseMethod(page, v) : v \in 0 .. 2}
           types == {ChooseType(page, o, v) : o \in Outs, v \in -1 .. 1}
           names == {TypeName(page, p, v) : p \in Ports, v \in Names}
           dividers == {TypeDivider(page, p, v) : p \in Ports, v \in {Blank, 0, 400, INT_MAX + 1}}
           lists == {TypeList(page, f, v) : f \in DOMAIN Sizes, v \in Typed}
<1>1. \A e \in texts : IsPage(e)
  BY EditedInput
<1>2. \A e \in methods : IsPage(e)
  BY EditedMethod
<1>3. \A e \in types : IsPage(e)
  BY EditedType
<1>4. \A e \in names : IsPage(e)
  BY EditedName
<1>5. \A e \in dividers : IsPage(e)
  <2>1. {Blank, 0, 400, INT_MAX + 1} \subseteq Dividers
    BY FormAssumption DEF Dividers
  <2> QED
    BY <2>1, EditedDivider
<1>6. \A e \in lists : IsPage(e)
  BY TypedTexts, SizesType, EditedList
<1>7. EditedPages(page) = texts \cup methods \cup types \cup names \cup dividers \cup lists
  BY DEF EditedPages
<1> HIDE DEF texts, methods, types, names, dividers, lists
<1> QED
  BY <1>1, <1>2, <1>3, <1>4, <1>5, <1>6, <1>7

\* A page whose lists are saved as they were is a page again when it is opened.
KeepsLists(page) == \A f \in DOMAIN Sizes : Resaved(Read(page, f), Sizes[f]) = Read(page, f)

LEMMA Reopened ==
    ASSUME NEW page, IsPage(page), KeepsLists(page), NEW json \in JsonOf(page)
    PROVE  IsPage(BuildConfigHtml(json))
<1> DEFINE shown == BuildConfigHtml(json)
<1>1. /\ shown.input = [f \in PageTexts |-> IF f \in SavedTexts THEN page.input[f] ELSE ""]
      /\ shown.method = page.method
      /\ shown.type = page.type /\ shown.name = page.name
      /\ shown.divider = [p \in Ports |-> DividerShown(page, p)]
      /\ shown.list = [f \in DOMAIN Sizes |-> BuildScheduleString(Read(page, f), Sizes[f])]
  BY Shown
<1>2. HasFields(shown)
  BY DEF HasFields, BuildConfigHtml
<1> HIDE DEF shown
<1>3. \A f \in DOMAIN Sizes : Read(shown, f) = Read(page, f)
  BY <1>1 DEF KeepsLists, Read, Resaved
<1>4. shown.divider \in [Ports -> Dividers]
  <2>1. \A p \in Ports : page.divider[p] \in Dividers
    BY DEF IsPage
  <2>2. \A p \in Ports : DividerShown(page, p) \in Dividers
    BY <2>1 DEF DividerShown, NumberOf, Dividers, Blank
  <2> QED
    BY <1>1, <2>2
<1>5. shown.list = [f \in DOMAIN Sizes |-> shown.list[f]]
  BY <1>1
<1>6. shown.input = [f \in PageTexts |-> shown.input[f]]
  BY <1>1
<1> QED
  BY <1>1, <1>2, <1>3, <1>4, <1>5, <1>6 DEF IsPage, shown

\* The page of a device without a configuration.
LEMMA EmptyPage == IsPage(BuildConfigHtml(EmptyJson)) /\ KeepsLists(BuildConfigHtml(EmptyJson))
<1> DEFINE page == BuildConfigHtml(EmptyJson)
           hours == [i \in 1 .. Sizes.hour |-> i - 1]
<1>1. HasFields(page)
  BY DEF HasFields, BuildConfigHtml
<1>2. page.input = [f \in PageTexts |-> page.input[f]]
  BY DEF BuildConfigHtml
<1>3. page.method \in 0 .. 2
  BY DEF BuildConfigHtml, EmptyJson, SSL
<1>4. page.type \in [Outs -> -1 .. 1]
  BY DEF BuildConfigHtml, EmptyJson, TypeOf, NoType
<1>5. page.name = [p \in Ports |-> page.name[p]] /\ page.divider \in [Ports -> Dividers]
  <2>1. \A p : ~ Shows(EmptyJson, p)
    BY DEF Shows, CountersAt, EmptyJson
  <2> QED
    <3>1. /\ page.name = [p \in Ports |->
                IF Shows(EmptyJson, p) THEN FirstAt(EmptyJson, p).mqttname ELSE ""]
          /\ page.divider = [p \in Ports |->
                IF Shows(EmptyJson, p) /\ FirstAt(EmptyJson, p).divider # 0
                THEN FirstAt(EmptyJson, p).divider ELSE Blank]
      BY DEF BuildConfigHtml
    <3> HIDE DEF page
    <3>2. page.name = [p \in Ports |-> ""]
      BY <2>1, <3>1
    <3>3. page.divider = [p \in Ports |-> Blank]
      BY <2>1, <3>1
    <3>4. page.name = [p \in Ports |-> page.name[p]]
      BY <3>2
    <3>5. page.divider \in [Ports -> Dividers]
      BY <3>3 DEF Dividers
    <3> QED
      BY <3>4, <3>5
<1>6. page.list = [f \in DOMAIN Sizes |-> BuildScheduleString(EmptyJson.schedule[f], Sizes[f])]
  BY DEF BuildConfigHtml
<1> HIDE DEF page
<1>7. \A f \in DOMAIN Sizes : Read(page, f) = Resaved(EmptyJson.schedule[f], Sizes[f])
  BY <1>6 DEF Read, Resaved
<1>8. ASSUME NEW f \in DOMAIN Sizes
      PROVE  Listing(Read(page, f), Sizes[f]) /\ Resaved(Read(page, f), Sizes[f]) = Read(page, f)
  <2> DEFINE a == EmptyJson.schedule[f]
  <2>1. Listing(a, Sizes[f]) /\ (Len(a) = Sizes[f] \/ ~ RunBeforeOther(a))
    <3>1. CASE f = "hour"
      <4>1. a = hours /\ Sizes[f] = 24
        BY <3>1 DEF EmptyJson, Sizes
      <4>2. Listing(hours, 24) /\ Len(hours) = 24
        <5>1. Listing(BuildTimeArray(Star, 24), 24) /\ Len(BuildTimeArray(Star, 24)) = 24
          <6>1. 24 \in Nat \ {0}
            OBVIOUS
          <6> QED
            BY <6>1, StarRead
        <5>2. BuildTimeArray(Star, 24) = hours
          BY DEF BuildTimeArray, Star, Sizes
        <5> HIDE DEF hours
        <5> QED
          BY <5>1, <5>2
      <4> QED
        BY <4>1, <4>2
    <3>2. CASE f # "hour"
      <4>1. a = <<0>> /\ Sizes[f] = 60
        BY <3>2 DEF EmptyJson, Sizes
      <4>2. Listing(<<0>>, 60)
        BY SingleListing
      <4>3. ~ RunBeforeOther(<<0>>)
        BY DEF RunBeforeOther
      <4> QED
        BY <4>1, <4>2, <4>3
    <3> QED
      BY <3>1, <3>2
  <2> HIDE DEF a
  <2>2. Resaved(a, Sizes[f]) = a
    BY <2>1, SizesType, ResavedLists
  <2> QED
    BY <1>7, <2>1, <2>2 DEF a
<1>9. page.list = [f \in DOMAIN Sizes |-> page.list[f]]
  BY <1>6
<1> QED
  BY <1>1, <1>2, <1>3, <1>4, <1>5, <1>8, <1>9 DEF IsPage, KeepsLists, page

\* Nothing else that is edited changes a list.
LEMMA ListsKept ==
    ASSUME NEW page, IsPage(page), KeepsLists(page)
    PROVE  /\ \A f, v : KeepsLists(TypeText(page, f, v))
           /\ \A v : KeepsLists(ChooseMethod(page, v))
           /\ \A o, v : KeepsLists(ChooseType(page, o, v))
           /\ \A p, v : KeepsLists(TypeName(page, p, v))
           /\ \A p, v : KeepsLists(TypeDivider(page, p, v))
<1>0. HasFields(page)
  BY DEF IsPage
<1>1. \A f, v : TypeText(page, f, v).list = page.list
  BY <1>0 DEF HasFields, TypeText
<1>2. \A v : ChooseMethod(page, v).list = page.list
  BY <1>0 DEF HasFields, ChooseMethod
<1>3. \A o, v : ChooseType(page, o, v).list = page.list
  BY <1>0 DEF HasFields, ChooseType
<1>4. \A p, v : TypeName(page, p, v).list = page.list
  BY <1>0 DEF HasFields, TypeName
<1>5. \A p, v : TypeDivider(page, p, v).list = page.list
  BY <1>0 DEF HasFields, TypeDivider
<1>6. \A e : e.list = page.list => KeepsLists(e)
  BY DEF KeepsLists, Read
<1> QED
  BY <1>1, <1>2, <1>3, <1>4, <1>5, <1>6

LEMMA MinutesRead ==
    LET a == BuildTimeArray(Parts(<<<<12>>, <<50, 53>>>>), 60)
    IN  Listing(a, 60) /\ ~ RunBeforeOther(a)
<1> DEFINE a == BuildTimeArray(Parts(<<<<12>>, <<50, 53>>>>), 60)
           b == [i \in 1 .. 4 |-> 49 + i]
           c == <<12>>
<1>1. a = Numbers(<<12>>) \o Numbers(<<50, 53>>)
  <2>1. <<12>> \in Seq(Int) /\ <<50, 53>> \in Seq(Int)
    OBVIOUS
  <2> QED
    BY <2>1, TwoParts
<1>2. Numbers(<<12>>) = <<12>> /\ Listing(<<12>>, 60)
  <2>1. 60 \in Nat /\ 12 \in 0 .. 60 - 1
    OBVIOUS
  <2> QED
    BY <2>1, SingleListing
<1>3. Numbers(<<50, 53>>) = b
  BY DEF Numbers
<1>4. b[1] = 50 /\ Len(b) = 4 /\ b \in Seq(Int) /\ \A i \in 1 .. 4 : b[i] = 49 + i
  OBVIOUS
<1>5. Listing(b, 60)
  BY DEF Listing
<1>6. a = c \o b
  BY <1>1, <1>2, <1>3
<1>7. c \in Seq(Int) /\ Len(c) = 1 /\ c[1] = 12 /\ Listing(c, 60)
  BY <1>2
<1> HIDE DEF a, b, c
<1>8. /\ Len(a) = 5 /\ \A i \in 1 .. 5 : a[i] = IF i = 1 THEN 12 ELSE 48 + i
      /\ Listing(a, 60)
  <2>1. Listing(c \o b, 60)
    <3>1. 60 \in Nat /\ c[Len(c)] < b[1]
      BY <1>4, <1>7
    <3> QED
      BY <1>5, <1>7, <3>1, JoinedListing
  <2>2. /\ Len(c \o b) = Len(c) + Len(b)
        /\ \A i \in 1 .. Len(c) + Len(b) :
              (c \o b)[i] = IF i <= Len(c) THEN c[i] ELSE b[i - Len(c)]
    <3>1. c \in Seq(Int) /\ b \in Seq(Int)
      BY <1>4, <1>7
    <3> QED
      BY <3>1, ConcatProperties
  <2> QED
    <3> DEFINE d == c \o b
    <3>1. Len(c) = 1 /\ Len(b) = 4 /\ Len(d) = 5
      BY <1>4, <1>7, <2>2
    <3>2. \A i \in 1 .. 5 : d[i] = IF i <= Len(c) THEN c[i] ELSE b[i - Len(c)]
      <4>1. 1 .. Len(c) + Len(b) = 1 .. 5
        BY <3>1
      <4> QED
        BY <2>2, <4>1
    <3> HIDE DEF d
    <3>3. 1 \in 1 .. 5 /\ d[1] = 12
      BY <1>7, <3>1, <3>2
    <3>4. ASSUME NEW i \in 2 .. 5 PROVE d[i] = 48 + i
      <4>1. i \in 1 .. 5 /\ ~ (i <= 1) /\ i - 1 \in 1 .. 4 /\ 49 + (i - 1) = 48 + i
        OBVIOUS
      <4>2. b[i - 1] = 49 + (i - 1)
        BY <1>4, <4>1
      <4>3. d[i] = b[i - 1]
        BY <3>1, <3>2, <4>1
      <4> QED
        BY <4>1, <4>2, <4>3
    <3>5. \A i \in 1 .. 5 : i = 1 \/ i \in 2 .. 5
      OBVIOUS
    <3>6. \A i \in 1 .. 5 : d[i] = IF i = 1 THEN 12 ELSE 48 + i
      BY <3>3, <3>4, <3>5
    <3>7. a = d
      BY <1>6 DEF d
    <3> QED
      BY <2>1, <3>1, <3>6, <3>7 DEF d
<1>9. DOMAIN a = 1 .. 5
  BY <1>8 DEF Listing
<1>10. ~ RunBeforeOther(a)
  <2> SUFFICES ASSUME NEW i \in 1 .. 5, NEW j \in 1 .. 5, i < j, Follows(a, i)
               PROVE  Follows(a, j)
    BY <1>9 DEF RunBeforeOther
  <2>1. j > 2 /\ j - 1 \in 1 .. 5
    BY DEF Follows
  <2> QED
    BY <1>8, <2>1 DEF Follows
<1> QED
  BY <1>8, <1>10 DEF a

\* The pages of all configurations are pages whose lists can be saved again.
LEMMA PagesKept ==
    \A page \in {Page0, Page1, Page2, Page3} : IsPage(page) /\ KeepsLists(page)
<1> DEFINE Good(page) == IsPage(page) /\ KeepsLists(page)
<1>1. \A page, f, v : Good(page) => Good(TypeText(page, f, v))
  BY EditedInput, ListsKept
<1>2. \A page : \A v \in 0 .. 2 : Good(page) => Good(ChooseMethod(page, v))
  BY EditedMethod, ListsKept
<1>3. \A page, o : \A v \in -1 .. 1 : Good(page) => Good(ChooseType(page, o, v))
  BY EditedType, ListsKept
<1>4. \A page, p, v : Good(page) => Good(TypeName(page, p, v))
  BY EditedName, ListsKept
<1>5. \A page, p : \A v \in Dividers : Good(page) => Good(TypeDivider(page, p, v))
  BY EditedDivider, ListsKept
<1>6. ASSUME NEW page, Good(page)
      PROVE  Good(Minutes(page))
  <2> DEFINE v == Parts(<<<<12>>, <<50, 53>>>>)
             e == TypeList(page, "minute", v)
  <2>1. "minute" \in DOMAIN Sizes /\ Sizes["minute"] = 60
    BY DEF Sizes
  <2>2. Listing(BuildTimeArray(v, 60), 60) /\ ~ RunBeforeOther(BuildTimeArray(v, 60))
    BY MinutesRead
  <2> HIDE DEF v
  <2>3. IsPage(e)
    BY <1>6, <2>1, <2>2, EditedList
  <2>4. \A f \in DOMAIN Sizes : e.list[f] = IF f = "minute" THEN v ELSE page.list[f]
    <3>1. HasFields(page) /\ DOMAIN page.list = DOMAIN Sizes
      BY <1>6 DEF IsPage
    <3>2. e.list = [page.list EXCEPT !["minute"] = v]
      BY <3>1 DEF HasFields, TypeList
    <3> QED
      BY <3>1, <3>2
  <2> HIDE DEF e
  <2>5. KeepsLists(e)
    <3> SUFFICES ASSUME NEW f \in DOMAIN Sizes
                 PROVE  Resaved(Read(e, f), Sizes[f]) = Read(e, f)
      BY DEF KeepsLists
    <3>1. CASE f = "minute"
      <4>1. Read(e, f) = BuildTimeArray(v, 60)
        BY <2>1, <2>4, <3>1 DEF Read
      <4>2. 60 \in Nat \ {0}
        OBVIOUS
      <4> QED
        BY <2>1, <2>2, <3>1, <4>1, <4>2, ResavedLists
    <3>2. CASE f # "minute"
      <4>1. Read(e, f) = Read(page, f)
        BY <2>4, <3>2 DEF Read
      <4> QED
        BY <1>6, <4>1 DEF KeepsLists
    <3> QED
      BY <3>1, <3>2
  <2> QED
    BY <2>3, <2>5 DEF e, v, Minutes
<1>7. Good(BuildConfigHtml(EmptyJson))
  BY EmptyPage
<1> HIDE DEF Good
<1>8. /\ {0, 1, 2, SSL, userPassword} \subseteq 0 .. 2 /\ {0, 1, EMeterType} \subseteq -1 .. 1
      /\ {400, 1000} \subseteq Dividers
  BY DEF SSL, userPassword, EMeterType, Dividers
<1>9. Good(Page0)
  <2>1. Good(Broker(BuildConfigHtml(EmptyJson)))
    BY <1>1, <1>2, <1>7, <1>8 DEF Broker
  <2>2. Good(ChooseType(Broker(BuildConfigHtml(EmptyJson)), 0, 1))
    BY <1>3, <1>8, <2>1
  <2>3. \A page : Good(page) => Good(Bath(page)) /\ Good(Sun(page))
    BY <1>4, <1>5, <1>8 DEF Bath, Sun
  <2> QED
    BY <2>2, <2>3 DEF Page0
<1>10. Good(Page1)
  BY <1>3, <1>4, <1>8, <1>9 DEF Page1
<1>11. Good(Page2)
  <2>1. Good(Certificates(Page1))
    BY <1>1, <1>2, <1>8, <1>10 DEF Certificates
  <2> QED
    BY <1>1, <2>1 DEF Page2
<1>12. Good(Page3)
  <2>1. Good(Minutes(Login(Page2)))
    BY <1>1, <1>2, <1>6, <1>8, <1>11 DEF Login
  <2> QED
    BY <1>4, <2>1 DEF Page3
<1> QED
  BY <1>9, <1>10, <1>11, <1>12 DEF Good

\* Every page of a device is that of one of the pages.
LEMMA PageOpened ==
    ASSUME NEW n \in Configs
    PROVE  \E page : /\ IsPage(page) /\ KeepsLists(page)
                     /\ Json(n) = BuildJsonFromHtml(page)
<1>1. CASE n = 0
  BY <1>1, PagesKept DEF Json
<1>2. CASE n # 0
  <2>1. /\ Len(Pages) = 3 /\ Pages[1] = Page1 /\ Pages[2] = Page2 /\ Pages[3] = Page3
    BY DEF Pages
  <2>2. n \in 1 .. 3
    BY <1>2, <2>1, PostAssumption, PagesAssumption DEF Configs
  <2>3. Pages[n] \in {Page1, Page2, Page3}
    BY <2>1, <2>2
  <2> QED
    BY <1>2, <2>3, PagesKept DEF Json
<1> QED
  BY <1>1, <1>2

LEMMA EditedAgain == ASSUME NEW n \in Configs PROVE \A page \in OpenedAndEdited(n) : IsPage(page)
<1>1. PICK page : IsPage(page) /\ KeepsLists(page) /\ Json(n) = BuildJsonFromHtml(page)
  BY PageOpened
<1>2. Opened(<<>>, Json(n)) = BuildConfigHtml(AddBuildDate(BuildJsonFromHtml(page)))
  BY <1>1 DEF Opened
<1>3. IsPage(BuildConfigHtml(AddBuildDate(BuildJsonFromHtml(page))))
  BY <1>1, Reopened DEF JsonOf
<1> QED
  BY <1>2, <1>3, Edited DEF OpenedAndEdited

LEMMA FormShownAgain == \A n \in Configs : ShownAgainFor(n)
<1> SUFFICES ASSUME NEW n \in Configs PROVE ShownAgainFor(n)
  OBVIOUS
<1>1. ASSUME NEW page \in OpenedAndEdited(n)
      PROVE  /\ SameFields(SendConfig(page, 200, BuildJsonFromHtml(page)), page)
             /\ SameFields(Opened(ImportConfig(DownloadConfiguration(page)), Json(n)), page)
             /\ Opened(ImportConfig(<<>>), Json(n)) = BuildConfigHtml(Json(n))
  <2> DEFINE json == BuildJsonFromHtml(page)
  <2>1. IsPage(page)
    BY EditedAgain
  <2>2. SendConfig(page, 200, json) = BuildConfigHtml(AddBuildDate(json))
    BY DEF SendConfig, Opened
  <2>3. Opened(ImportConfig(DownloadConfiguration(page)), Json(n)) = BuildConfigHtml(json)
    <3> HIDE DEF json
    <3>1. /\ <<<<json>>>> # <<>> /\ Head(<<<<json>>>>) = <<json>>
          /\ <<json>> # <<>> /\ Head(<<json>>) = json
      OBVIOUS
    <3> QED
      BY <3>1 DEF Opened, ImportConfig, DownloadConfiguration, json
  <2>4. /\ SameFields(BuildConfigHtml(AddBuildDate(json)), page)
        /\ SameFields(BuildConfigHtml(json), page)
    BY <2>1, FormShown DEF JsonOf
  <2>5. Opened(ImportConfig(<<>>), Json(n)) = BuildConfigHtml(Json(n))
    <3>1. Head(<<<<>>>>) = <<>>
      OBVIOUS
    <3>2. Opened(ImportConfig(<<>>), Json(n)) = BuildConfigHtml(AddBuildDate(Json(n)))
      BY <3>1 DEF Opened, ImportConfig
    <3>3. PICK q : Json(n) = BuildJsonFromHtml(q)
      BY PageOpened
    <3>4. /\ AddBuildDate(Json(n)).text = Json(n).text
          /\ AddBuildDate(Json(n)).schedule = Json(n).schedule
          /\ AddBuildDate(Json(n)).method = Json(n).method
          /\ AddBuildDate(Json(n)).outputs = Json(n).outputs
          /\ AddBuildDate(Json(n)).counters = Json(n).counters
      BY <3>3 DEF AddBuildDate, BuildJsonFromHtml
    <3>5. BuildConfigHtml(AddBuildDate(Json(n))) = BuildConfigHtml(Json(n))
      BY <3>4 DEF BuildConfigHtml, Text, TypeOf, Shows, FirstAt, CountersAt
    <3> QED
      BY <3>2, <3>5
  <2> QED
    BY <2>2, <2>3, <2>4, <2>5
<1> QED
  BY <1>1 DEF ShownAgainFor

LEMMA FormLoadedAgain == \A n \in Configs : DeviceAsShownFor(n)
BY EditedAgain, FormLoaded DEF DeviceAsShownFor, JsonOf

LEMMA FormServedAgain == \A n \in Configs : SlotsServeFor(n)
BY EditedAgain, FormServed DEF SlotsServeFor

------------------------------------------------------------------------------
(* The panels of the outputs                                                *)

\* What follows from the types alone, and that only one is open.
Panels(panels) ==
    /\ panels = [o \in Outs |->
                    [type |-> panels[o].type, open |-> panels[o].open,
                     button |-> panels[o].button]]
    /\ \A o \in Outs : panels[o].button \in BOOLEAN /\ panels[o].open \in BOOLEAN
    /\ \A o \in Outs : panels[o].button <=> panels[o].type # NoType
    /\ \A o \in Outs : panels[o].open => panels[o].type # NoType
    /\ \A o, q \in Outs : panels[o].open /\ panels[q].open => o = q

LEMMA PanelsOpened == \A page : Panels(NewPanels(page))
BY DEF Panels, NewPanels

LEMMA PanelsToggled ==
    ASSUME NEW panels, Panels(panels),
           NEW b \in {Configuration} \cup {Out(o) : o \in {q \in Outs : panels[q].button}}
    PROVE  Panels(Toggle(panels, b))
<1> DEFINE t == Toggle(panels, b)
           show(o) == Out(o) = b /\ ~ panels[o].open
<1>1. t = [o \in Outs |-> [type |-> panels[o].type, open |-> show(o),
                           button |-> panels[o].type # NoType]]
  <2>1. \A o \in Outs : ChangeVisibility(panels[o], show(o)) =
           [type |-> panels[o].type, open |-> show(o), button |-> panels[o].type # NoType]
    BY DEF ChangeVisibility
  <2>2. t = [o \in Outs |-> ChangeVisibility(panels[o], show(o))]
    BY DEF Toggle
  <2> HIDE DEF t, show
  <2> QED
    BY <2>1, <2>2
<1>2. \A o, q \in Outs : Out(o) = Out(q) => o = q
  BY DEF Out
<1>3. \A o \in Outs : Out(o) = b => panels[o].type # NoType
  <2>1. \A o \in Outs : Out(o) # Configuration
    BY DEF Out, Configuration
  <2> QED
    BY <1>2, <2>1 DEF Panels
<1>4. \A o, q \in Outs : show(o) /\ show(q) => o = q
  BY <1>2
<1>5. \A o \in Outs : show(o) => panels[o].type # NoType
  BY <1>3
<1>6. \A o \in Outs : show(o) \in BOOLEAN
  OBVIOUS
<1> HIDE DEF t, show
<1>7. \A o \in Outs : /\ t[o].type = panels[o].type /\ t[o].open = show(o)
                      /\ t[o].button = (panels[o].type # NoType)
  BY <1>1
<1>8. t = [o \in Outs |-> [type |-> t[o].type, open |-> t[o].open, button |-> t[o].button]]
  BY <1>1, <1>7
<1> QED
  BY <1>4, <1>5, <1>6, <1>7, <1>8 DEF Panels, t

LEMMA PanelsChosen ==
    ASSUME NEW panels, Panels(panels), NEW o \in Outs, NEW type \in -1 .. 1
    PROVE  Panels(CategoryHeaderUpdateActive(panels, o, type))
<1> DEFINE t == CategoryHeaderUpdateActive(panels, o, type)
           p == [type |-> type, open |-> IF type # NoType THEN panels[o].open ELSE FALSE,
                 button |-> type # NoType]
<1>1. t = [panels EXCEPT ![o] = p]
  <2>1. panels[o] = [type |-> panels[o].type, open |-> panels[o].open,
                     button |-> panels[o].button]
    BY DEF Panels
  <2>2. [panels[o] EXCEPT !.type = type].type = type
    BY <2>1
  <2>3. Inactive([panels[o] EXCEPT !.type = type]) =
           [type |-> type, open |-> FALSE, button |-> type # NoType]
    BY <2>2 DEF Inactive, ChangeVisibility
  <2>4. CASE type # NoType
    BY <2>4 DEF CategoryHeaderUpdateActive
  <2>5. CASE type = NoType
    BY <2>3, <2>5 DEF CategoryHeaderUpdateActive
  <2> QED
    BY <2>4, <2>5
<1> HIDE DEF t
<1>2. \A q \in Outs : t[q] = IF q = o THEN p ELSE panels[q]
  BY <1>1 DEF Panels
<1>3. /\ p.type = type /\ p.open = (type # NoType /\ panels[o].open)
      /\ p.button = (type # NoType)
  BY DEF Panels
<1>4. p = [type |-> p.type, open |-> p.open, button |-> p.button]
  OBVIOUS
<1> HIDE DEF p
<1>5. t = [q \in Outs |-> [type |-> t[q].type, open |-> t[q].open, button |-> t[q].button]]
  BY <1>1, <1>2, <1>4 DEF Panels
<1> QED
  BY <1>2, <1>3, <1>5 DEF Panels, t

LEMMA PanelsNext ==
    ASSUME NEW panels, Panels(panels) PROVE \A next \in NextPanels(panels) : Panels(next)
BY PanelsToggled, PanelsChosen DEF NextPanels

LEMMA PanelsOfOne == ASSUME NEW panels, Panels(panels) PROVE PanelsFollow(panels)
<1> DEFINE open == {o \in Outs : panels[o].open}
<1>1. Cardinality(open) <= 1
  <2>1. CASE open = {}
    BY <2>1, FS_EmptySet
  <2>2. CASE open # {}
    <3>1. PICK o : open = {o}
      BY <2>2 DEF Panels
    <3> QED
      BY <3>1, FS_Singleton
  <2> QED
    BY <2>1, <2>2
<1> QED
  BY <1>1 DEF PanelsFollow, Panels

LEMMA FormPanels == \A n \in Configs : OutputsReachableFor(n)
BY PanelsOpened, PanelsNext, PanelsOfOne DEF OutputsReachableFor

------------------------------------------------------------------------------
(* The invariants of MCConfig: the verdict on each configuration is TRUE    *)

\* Whatever is changed in the page of the configuration in the flash, and saved or imported,
\* is shown again, but the name of the NTP server and a divider of 0.
THEOREM AlwaysShownAgain == Spec => []ShownAgain
<1>1. TypeOK => ShownAgain
  BY FormShownAgain DEF TypeOK, ShownAgain, ShownAgainIn
<1> QED
  BY <1>1, TypeInductive, PTL DEF Spec

\* What the device makes of it is what the page shows, but the NTP server; of a divider only
\* if it is a positive int.
THEOREM AlwaysAsShown == Spec => []DeviceAsShown
<1>1. TypeOK => DeviceAsShown
  BY FormLoadedAgain DEF TypeOK, DeviceAsShown, DeviceAsShownIn
<1> QED
  BY <1>1, TypeInductive, PTL DEF Spec

\* The table of the pulse counter has a slot for each direct meter that has a name, and for
\* every meter as long as the direct lines leave room.
THEOREM AlwaysServed == Spec => []SlotsServe
<1>1. TypeOK => SlotsServe
  BY FormServedAgain DEF TypeOK, SlotsServe, SlotsServeIn
<1> QED
  BY <1>1, TypeInductive, PTL DEF Spec

\* At most one output shows its meters, and each that has a type can.
THEOREM AlwaysReachable == Spec => []OutputsReachable
<1>1. TypeOK => OutputsReachable
  BY FormPanels DEF TypeOK, OutputsReachable, OutputsReachableIn
<1> QED
  BY <1>1, TypeInductive, PTL DEF Spec
===============================================================================
