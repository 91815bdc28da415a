------------------------ MODULE DataDirectoryProofs ------------------------
(***************************************************************************)
(* The first start, for any number of processes, secrets and sets of flags *)
(* and with every failure: what init writes is usable, the directory has   *)
(* one token and one pin, and a server that is refused has a cause.        *)
(***************************************************************************)
EXTENDS DataDirectory, TLAPS

USE DEF files, locals, history

----------------------------------------------------------------------------
(* What init renders.                                                      *)
Usable(c) ==
    c.mode = "auto" =>
        /\ c.providers => Accepts(c)
        /\ IsLoopback(c.listen) => IsLoopback(c.public)

LEMMA RenderedIsUsable ==
    ASSUME NEW o \in Options, NEW c \in Rendered(o)
    PROVE  c \in Configs /\ Usable(c)
<1>1. o \in InitOptions
  BY OptionsAssumption
<1>2. /\ o.mode \in Modes /\ o.listen \in Hosts /\ o.public \in Hosts \cup {"bad"}
      /\ {o.listenSet, o.insecure, o.providers, o.interactive} \subseteq BOOLEAN
  BY <1>1 DEF InitOptions
<1>3. PICK url \in PublicURLs(o) :
        c = [mode |-> o.mode, listen |-> WidenListen(o.listen, url), public |-> url,
             insecure |-> o.insecure, providers |-> o.providers]
  BY DEF Rendered
<1>4. url \in Hosts /\ (o.mode = "auto" => url # "none")
  <2>1. CASE o.public # "none"
    BY <1>2, <2>1 DEF PublicURLs, Hosts
  <2>2. CASE o.public = "none"
    BY <1>2, <2>2 DEF PublicURLs, Hosts, Prompted, Inferable
  <2> QED BY <2>1, <2>2
<1>5. WidenListen(o.listen, url) \in Hosts
  BY <1>2 DEF WidenListen, Hosts
<1>6. c \in Configs
  BY <1>2, <1>3, <1>4, <1>5 DEF Configs
<1>7. Usable(c)
  BY <1>3, <1>4 DEF Usable, Accepts, WidenListen, IsLoopback
<1> QED BY <1>6, <1>7

----------------------------------------------------------------------------
(* What a process holds, by its step.                                      *)
Rendering == {"init_open", "init_write", "init_close"}

(* It has a configuration; a token; no key yet; a key of its own. *)
Configured == (ServeStates \ {"load", "serving"}) \cup {"pair_token", "pair_show"}
Tokened    == {"token_close", "cert", "cert_write", "key", "key_write", "pair", "start",
               "pair_show"}
Keyless    == {"idle", "load", "token", "mint", "reread", "token_write", "token_close", "cert"}
Keyed      == {"cert_write", "key", "key_write"}

LocalInv ==
    /\ \A p \in Processes :
        /\ pc[p] \in Rendering => conf[p] \in Configs /\ Usable(conf[p])
        /\ pc[p] \in Configured => conf[p] \in Configs
        /\ pc[p] \in Tokened \cup {"token_write"} => secret[p] \in Secrets
        /\ pc[p] \in Keyless => pairKey[p] = None
        /\ pc[p] \in Keyed => pairKey[p] \in Secrets
    /\ config \in Configs => Usable(config)

TypeInv == TypeOK /\ LocalInv

LEMMA TypeInit == Init => TypeInv
BY NoneAssumption DEF Init, TypeInv, TypeOK, LocalInv, Rendering, Configured, Tokened, Keyless, Keyed,
   ServeStates

AllStates == {"idle"} \cup InitStates \cup ServeStates \cup PairingStates

USE DEF AllStates, InitStates, ServeStates, PairingStates, Rendering, Configured, Tokened, Keyless, Keyed

(* A process that ends holds nothing. *)
LEMMA EndType ==
    ASSUME TypeInv, NEW p \in Processes, End(p), UNCHANGED <<files, expired, used>>,
           shown' \subseteq [token: Secrets, pin: Secrets \cup {None}],
           {refused', overlap', damaged', withdrawn'} \subseteq BOOLEAN
    PROVE  TypeInv'
<1> USE DEF TypeInv, End, GoTo, Forget
<1>1. TypeOK'
  BY DEF TypeOK
<1>2. LocalInv'
  BY DEF TypeOK, LocalInv
<1> QED BY <1>1, <1>2

LEMMA InitType ==
    ASSUME TypeInv, NEW p \in Processes, InitCommand(p) PROVE TypeInv'
<1> USE NoneAssumption DEF TypeInv
<1>1. ASSUME NEW o \in Options, RunInit(p, o) PROVE TypeInv'
  <2>1. CASE Quit(p)
    BY <2>1, EndType DEF Quit, TypeOK
  <2>2. ASSUME NEW c \in Rendered(o), pc[p] = "idle", GoTo(p, "init_open"), conf' = [conf EXCEPT ![p] = c],
               UNCHANGED <<files, expired, secret, pairKey, used, history>>
        PROVE  TypeInv'
    <3>1. c \in Configs /\ Usable(c)
      BY RenderedIsUsable
    <3>2. TypeOK'
      BY <2>2, <3>1 DEF TypeOK, GoTo
    <3>3. LocalInv'
      BY <2>2, <3>1 DEF TypeOK, LocalInv, GoTo
    <3> QED BY <3>2, <3>3
  <2> QED BY <1>1, <2>1, <2>2 DEF RunInit
<1>2. CASE CreateConfig(p)
  <2>1. CASE Quit(p)
    BY <2>1, EndType DEF Quit, TypeOK
  <2>2. CASE ~Quit(p)
    <3>1. TypeOK'
      BY <1>2, <2>2 DEF CreateConfig, TypeOK, GoTo
    <3>2. LocalInv'
      BY <1>2, <2>2 DEF CreateConfig, TypeOK, LocalInv, GoTo
    <3> QED BY <3>1, <3>2
  <2> QED BY <2>1, <2>2
<1>3. CASE WriteConfig(p)
  <2>1. TypeOK'
    BY <1>3 DEF WriteConfig, TypeOK, LocalInv, GoTo, End, Forget
  <2>2. LocalInv'
    BY <1>3 DEF WriteConfig, TypeOK, LocalInv, GoTo, End, Forget
  <2> QED BY <2>1, <2>2
<1>4. CASE CloseConfig(p)
  <2>1. TypeOK'
    BY <1>4 DEF CloseConfig, TypeOK, GoTo, End, Forget
  <2>2. LocalInv'
    BY <1>4 DEF CloseConfig, TypeOK, LocalInv, GoTo, End, Forget
  <2> QED BY <2>1, <2>2
<1> QED BY <1>1, <1>2, <1>3, <1>4 DEF InitCommand

(* A step that moves p on from one state to another. *)
LEMMA TokenType ==
    ASSUME TypeInv, NEW p \in Processes,
           ReadToken(p) \/ MintToken(p) \/ RereadToken(p) \/ WriteToken(p) \/ CloseToken(p)
    PROVE  TypeInv'
<1> USE NoneAssumption DEF TypeInv
<1>1. CASE Quit(p) \/ Refuse(p)
  BY <1>1, EndType DEF Quit, Refuse, TypeOK
<1>2. CASE \E next \in {AfterToken(p), "pair_show"} : HaveToken(p, next) /\ token \in Secrets
                                                     /\ pc[p] \in {"token", "reread"}
  <2>1. AfterToken(p) \in {"start", "cert"}
    BY DEF AfterToken
  <2>2. TypeOK'
    BY <1>2, <2>1 DEF HaveToken, TypeOK, GoTo
  <2>3. LocalInv'
    BY <1>2, <2>1 DEF HaveToken, TypeOK, LocalInv, GoTo
  <2> QED BY <2>2, <2>3
<1>3. CASE pc[p] = "token" /\ GoTo(p, "mint") /\ UNCHANGED <<files, expired, locals, used, history>>
  <2>1. TypeOK'
    BY <1>3 DEF TypeOK, GoTo
  <2>2. LocalInv'
    BY <1>3 DEF TypeOK, LocalInv, GoTo
  <2> QED BY <2>1, <2>2
<1>4. CASE MintToken(p)
  <2>1. TypeOK'
    BY <1>4 DEF MintToken, Generate, TypeOK, GoTo
  <2>2. LocalInv'
    BY <1>4 DEF MintToken, TypeOK, LocalInv, GoTo
  <2> QED BY <2>1, <2>2
<1>5. CASE WriteToken(p)
  <2>1. TypeOK'
    BY <1>5 DEF WriteToken, Removed, TypeOK, LocalInv, GoTo, End, Forget
  <2>2. LocalInv'
    BY <1>5 DEF WriteToken, TypeOK, LocalInv, GoTo, End, Forget
  <2> QED BY <2>1, <2>2
<1>6. CASE CloseToken(p)
  <2>1. AfterToken(p) \in {"start", "cert"}
    BY DEF AfterToken
  <2>2. TypeOK'
    BY <1>6, <2>1 DEF CloseToken, Removed, TypeOK, GoTo, End, Forget
  <2>3. LocalInv'
    BY <1>6, <2>1 DEF CloseToken, TypeOK, LocalInv, GoTo, End, Forget
  <2> QED BY <2>2, <2>3
<1> QED BY <1>1, <1>2, <1>3, <1>4, <1>5, <1>6 DEF ReadToken, RereadToken, ValidToken

LEMMA CertificateType ==
    ASSUME TypeInv, NEW p \in Processes,
           StatCertificate(p) \/ WriteCertificate(p) \/ CreateKey(p) \/ WriteKey(p) \/ LoadKeyPair(p)
    PROVE  TypeInv'
<1> USE NoneAssumption DEF TypeInv
<1>1. CASE Quit(p) \/ Refuse(p) \/ CutShort(p)
  BY <1>1, EndType DEF Quit, Refuse, CutShort, TypeOK
<1>2. CASE StatCertificate(p)
  <2>1. TypeOK'
    BY <1>2 DEF StatCertificate, Generate, TypeOK, GoTo
  <2>2. LocalInv'
    BY <1>2 DEF StatCertificate, TypeOK, LocalInv, GoTo
  <2> QED BY <2>1, <2>2
<1>3. CASE Move(p, "cert_write", "key") /\ WriteCertificate(p) /\ ~CutShort(p)
  <2>1. conf[p] \in Configs /\ pairKey[p] \in Secrets
    BY <1>3 DEF Move, LocalInv
  <2>2. conf[p].public \in Hosts
    BY <2>1 DEF Configs
  <2>3. /\ cert' = [key |-> pairKey[p], host |-> conf[p].public] /\ expired' = FALSE
        /\ GoTo(p, "key") /\ UNCHANGED <<config, token, key, locals, used, history>>
    BY <1>3 DEF WriteCertificate, NamedHost, Move
  <2>4. cert' \in Certificates
    BY <2>1, <2>2, <2>3 DEF Certificates
  <2>5. TypeOK'
    BY <2>3, <2>4 DEF TypeOK, GoTo
  <2>6. LocalInv'
    BY <1>3, <2>3 DEF TypeOK, LocalInv, Move, GoTo
  <2> QED BY <2>5, <2>6
<1>4. CASE (CreateKey(p) \/ WriteKey(p)) /\ ~CutShort(p)
  <2>1. TypeOK'
    BY <1>4 DEF CreateKey, WriteKey, TypeOK, LocalInv, Move, GoTo
  <2>2. LocalInv'
    BY <1>4 DEF CreateKey, WriteKey, TypeOK, LocalInv, Move, GoTo
  <2> QED BY <2>1, <2>2
<1>5. CASE LoadKeyPair(p) /\ ~Quit(p) /\ ~Refuse(p)
  <2>1. cert \in Certificates /\ cert.key \in Secrets
    BY <1>5 DEF LoadKeyPair, KeyPairLoads, BothPresent, Certificates
  <2>2. TypeOK'
    BY <1>5, <2>1 DEF LoadKeyPair, TypeOK, GoTo
  <2>3. LocalInv'
    BY <1>5 DEF LoadKeyPair, TypeOK, LocalInv, GoTo
  <2> QED BY <2>2, <2>3
<1>6. WriteCertificate(p) => CutShort(p) \/ Move(p, "cert_write", "key")
  BY DEF WriteCertificate
<1> QED BY <1>1, <1>2, <1>3, <1>4, <1>5, <1>6

LEMMA PinType == ASSUME TypeInv, NEW c PROVE Pin(c) \subseteq Secrets \cup {None}
BY DEF TypeInv, Pin, Certificates

LEMMA CommandType ==
    ASSUME TypeInv, NEW p \in Processes,
           \/ RunServe(p) \/ LoadConfig(p, "load", "token") \/ StartApp(p) \/ Stop(p)
           \/ PairingCommand(p) \/ Die(p)
    PROVE  TypeInv'
<1> USE NoneAssumption DEF TypeInv
<1>1. CASE Quit(p) \/ Die(p)
  <2>1. CASE Quit(p)
    BY <2>1, EndType DEF Quit, TypeOK
  <2>2. CASE Die(p)
    <3>1. damaged' \in BOOLEAN
      BY <2>2 DEF Die
    <3> QED BY <2>2, <3>1, EndType DEF Die, TypeOK
  <2> QED BY <1>1, <2>1, <2>2
<1>2. CASE RunServe(p)
  <2>1. overlap' \in BOOLEAN
    BY <1>2 DEF RunServe
  <2>2. TypeOK'
    BY <1>2, <2>1 DEF RunServe, TypeOK, Move, GoTo
  <2>3. LocalInv'
    BY <1>2 DEF RunServe, TypeOK, LocalInv, Move, GoTo
  <2> QED BY <2>2, <2>3
<1>3. CASE RunPairing(p)
  <2>1. TypeOK'
    BY <1>3 DEF RunPairing, TypeOK, Move, GoTo
  <2>2. LocalInv'
    BY <1>3 DEF RunPairing, TypeOK, LocalInv, Move, GoTo
  <2> QED BY <2>1, <2>2
<1>4. ASSUME NEW from, NEW to, <<from, to>> \in {<<"load", "token">>, <<"pair_load", "pair_token">>},
             LoadConfig(p, from, to), ~Quit(p)
      PROVE  TypeInv'
  <2>1. TypeOK'
    BY <1>4 DEF LoadConfig, Loadable, TypeOK, GoTo
  <2>2. LocalInv'
    BY <1>4 DEF LoadConfig, Loadable, TypeOK, LocalInv, GoTo
  <2> QED BY <2>1, <2>2
<1>5. CASE PairingToken(p) /\ ~Quit(p)
  <2>1. TypeOK'
    BY <1>5 DEF PairingToken, ValidToken, HaveToken, TypeOK, GoTo
  <2>2. LocalInv'
    BY <1>5 DEF PairingToken, ValidToken, HaveToken, TypeOK, LocalInv, GoTo
  <2> QED BY <2>1, <2>2
<1>6. CASE ShowPairing(p) /\ ~Quit(p)
  <2>1. secret[p] \in Secrets
    BY <1>6 DEF ShowPairing, LocalInv
  <2>2. shown' \subseteq [token: Secrets, pin: Secrets \cup {None}]
    BY <1>6, <2>1, PinType DEF ShowPairing, TypeOK
  <2> QED BY <1>6, <2>2, EndType DEF ShowPairing, TypeOK
<1>7. CASE StartApp(p) /\ ~Quit(p)
  <2>1. secret[p] \in Secrets /\ pairKey[p] \in Secrets \cup {None}
    BY <1>7 DEF StartApp, LocalInv, TypeOK
  <2>2. shown' \subseteq [token: Secrets, pin: Secrets \cup {None}]
    BY <1>7, <2>1, PinType DEF StartApp, TypeOK
  <2>3. TypeOK'
    BY <1>7, <2>2 DEF StartApp, TypeOK, GoTo, Forget
  <2>4. LocalInv'
    BY <1>7 DEF StartApp, TypeOK, LocalInv, GoTo, Forget
  <2> QED BY <2>3, <2>4
<1> QED BY <1>1, <1>2, <1>3, <1>4, <1>5, <1>6, <1>7 DEF Stop, PairingCommand

LEMMA TypeStep == ASSUME TypeInv, [Next]_vars PROVE TypeInv'
<1>1. CASE UNCHANGED vars
  BY <1>1 DEF vars, TypeInv, TypeOK, LocalInv
<1>2. CASE Expire
  BY <1>2 DEF Expire, TypeInv, TypeOK, LocalInv
<1>3. ASSUME NEW p \in Processes, InitCommand(p) \/ ServeCommand(p) \/ PairingCommand(p) \/ Die(p)
      PROVE  TypeInv'
  BY <1>3, InitType, TokenType, CertificateType, CommandType DEF ServeCommand
<1> QED BY <1>1, <1>2, <1>3 DEF Next

LEMMA TypeInvariant == Spec => []TypeInv
BY TypeInit, TypeStep, PTL DEF Spec

(* Every file is absent, partial or complete, and no command takes a part  *)
(* of a token or of a key for the whole (os.OpenFile and the checks after  *)
(* each read).                                                             *)
THEOREM TypeCorrect == Spec => []TypeOK
BY TypeInvariant, PTL DEF TypeInv

(* What init writes, serve accepts, and it announces no server under an    *)
(* address where it cannot be reached, whatever the flags (init.go).       *)
THEOREM ConfigIsUsable == Spec => []UsableConfig
<1>1. TypeInv => UsableConfig
  BY DEF TypeInv, LocalInv, UsableConfig, Usable
<1> QED BY <1>1, TypeInvariant, PTL

----------------------------------------------------------------------------
(* One token.  A file that was created exclusively has one writer, and     *)
(* everybody else holds what it has written, unless a failing close has    *)
(* taken a token back.                                                     *)
TokenAgreed ==
    /\ \A p \in Processes :
        /\ pc[p] = "token_write" => token = Partial
        /\ pc[p] \in Tokened => secret[p] = token
    /\ \A p, q \in Processes : pc[p] = "token_write" /\ pc[q] = "token_write" => p = q
    /\ \A s \in shown : s.token = token

TokenInv == TypeInv /\ (~withdrawn => TokenAgreed)

LEMMA TokenInit == Init => TokenInv
BY TypeInit DEF Init, TokenInv, TokenAgreed

LEMMA EndKeepsToken ==
    ASSUME TokenAgreed, TypeInv, NEW p \in Processes, End(p), UNCHANGED <<token, shown>>
    PROVE  TokenAgreed'
BY DEF TokenAgreed, TypeInv, TypeOK, End, Forget, GoTo

LEMMA TokenFileStep ==
    ASSUME TokenInv, ~withdrawn', NEW p \in Processes,
           ReadToken(p) \/ MintToken(p) \/ RereadToken(p) \/ WriteToken(p) \/ CloseToken(p)
    PROVE  TokenAgreed'
<1> USE NoneAssumption DEF TokenInv
<1>0. ~withdrawn
  BY DEF ReadToken, MintToken, RereadToken, WriteToken, CloseToken, HaveToken, Refuse, Quit
<1>1. CASE Quit(p) \/ Refuse(p)
  BY <1>0, <1>1, EndKeepsToken DEF Quit, Refuse
<1>2. CASE \E next \in {AfterToken(p)} : HaveToken(p, next)
  BY <1>0, <1>2 DEF AfterToken, HaveToken, TokenAgreed, TypeInv, TypeOK, GoTo
<1>3. CASE GoTo(p, "mint") /\ UNCHANGED <<files, expired, locals, used, history>>
  BY <1>0, <1>3 DEF TokenAgreed, TypeInv, TypeOK, GoTo
<1>4. CASE MintToken(p)
  <2>1. CASE token = None
    <3>1. \A q \in Processes : pc[q] \notin Tokened \cup {"token_write"}
      BY <1>0, <2>1 DEF TokenAgreed, TypeInv, LocalInv
    <3>2. shown = {}
      BY <1>0, <2>1 DEF TokenAgreed, TypeInv, TypeOK
    <3> QED BY <1>4, <2>1, <3>1, <3>2 DEF MintToken, MayCreate, TokenAgreed, TypeInv, TypeOK, GoTo
  <2>2. CASE token # None
    BY <1>0, <1>4, <2>2 DEF MintToken, MayCreate, TokenAgreed, TypeInv, TypeOK, GoTo
  <2> QED BY <2>1, <2>2
<1>5. CASE WriteToken(p)
  <2>1. token = Partial /\ secret[p] \in Secrets
    BY <1>0, <1>5 DEF WriteToken, TokenAgreed, TypeInv, LocalInv
  <2>2. \A q \in Processes : pc[q] \notin Tokened
    BY <1>0, <2>1 DEF TokenAgreed, TypeInv, LocalInv
  <2>3. shown = {}
    BY <1>0, <2>1 DEF TokenAgreed, TypeInv, TypeOK
  <2>4. \A q \in Processes \ {p} : pc[q] # "token_write"
    BY <1>0, <1>5 DEF WriteToken, TokenAgreed
  <2> QED BY <1>5, <2>1, <2>2, <2>3, <2>4
          DEF WriteToken, Removed, TokenAgreed, TypeInv, TypeOK, GoTo, End, Forget
<1>6. CASE CloseToken(p)
  <2>1. GoTo(p, AfterToken(p)) /\ UNCHANGED <<token, locals, shown>>
    BY <1>6 DEF CloseToken
  <2> QED BY <1>0, <1>6, <2>1 DEF CloseToken, AfterToken, TokenAgreed, TypeInv, TypeOK, GoTo
<1> QED BY <1>1, <1>2, <1>3, <1>4, <1>5, <1>6 DEF ReadToken, RereadToken

LEMMA OtherTokenStep ==
    ASSUME TokenInv, ~withdrawn', NEW p \in Processes,
           \/ InitCommand(p) \/ PairingCommand(p) \/ Die(p)
           \/ RunServe(p) \/ LoadConfig(p, "load", "token")
           \/ StatCertificate(p) \/ WriteCertificate(p) \/ CreateKey(p) \/ WriteKey(p)
           \/ LoadKeyPair(p) \/ StartApp(p) \/ Stop(p)
    PROVE  TokenAgreed'
<1> USE DEF TokenInv
<1>0. ~withdrawn
  BY DEF InitCommand, RunInit, CreateConfig, WriteConfig, CloseConfig, PairingCommand, RunPairing,
         LoadConfig, PairingToken, ShowPairing, HaveToken, Die, RunServe, StatCertificate,
         WriteCertificate, CreateKey, WriteKey, CutShort, LoadKeyPair, Refuse, Quit, StartApp, Stop
<1>1. CASE Quit(p) \/ Refuse(p) \/ CutShort(p) \/ Die(p)
  BY <1>0, <1>1, EndKeepsToken DEF Quit, Refuse, CutShort, Die
<1>2. CASE InitCommand(p) /\ ~Quit(p)
  <2>1. UNCHANGED <<token, shown>> /\ (End(p) \/ \E to \in {"init_open", "init_write", "init_close"} :
            GoTo(p, to) /\ UNCHANGED secret)
    BY <1>2 DEF InitCommand, RunInit, CreateConfig, WriteConfig, CloseConfig
  <2>2. CASE End(p)
    BY <1>0, <2>1, <2>2, EndKeepsToken
  <2>3. CASE \E to \in {"init_open", "init_write", "init_close"} : GoTo(p, to) /\ UNCHANGED secret
    BY <1>0, <2>1, <2>3 DEF TokenAgreed, TypeInv, TypeOK, GoTo
  <2> QED BY <2>1, <2>2, <2>3
<1>3. CASE \/ RunServe(p) \/ RunPairing(p)
           \/ (LoadConfig(p, "load", "token") \/ LoadConfig(p, "pair_load", "pair_token")) /\ ~Quit(p)
  BY <1>0, <1>3 DEF RunServe, RunPairing, LoadConfig, Move, TokenAgreed, TypeInv, TypeOK, GoTo
<1>4. CASE PairingToken(p) /\ ~Quit(p)
  BY <1>0, <1>4 DEF PairingToken, HaveToken, TokenAgreed, TypeInv, TypeOK, GoTo
<1>5. CASE (ShowPairing(p) \/ StartApp(p)) /\ ~Quit(p)
  <2>1. secret[p] = token
    BY <1>0, <1>5 DEF ShowPairing, StartApp, TokenAgreed
  <2>2. \A s \in shown' : s.token = token
    BY <1>0, <1>5, <2>1 DEF ShowPairing, StartApp, TokenAgreed
  <2>3. token' = token /\ (End(p) \/ (GoTo(p, "serving") /\ Forget(p)))
    BY <1>5 DEF ShowPairing, StartApp
  <2> QED BY <1>0, <2>2, <2>3 DEF TokenAgreed, TypeInv, TypeOK, End, Forget, GoTo
<1>6. CASE \/ StatCertificate(p)
           \/ (WriteCertificate(p) \/ CreateKey(p) \/ WriteKey(p)) /\ ~CutShort(p)
           \/ LoadKeyPair(p) /\ ~Quit(p) /\ ~Refuse(p)
  <2>1. /\ pc[p] \in Tokened /\ UNCHANGED <<token, secret, shown>>
        /\ \E to \in {"cert_write", "key", "key_write", "pair", "start"} : GoTo(p, to)
    BY <1>6 DEF StatCertificate, WriteCertificate, CreateKey, WriteKey, LoadKeyPair, Move
  <2> QED BY <1>0, <2>1 DEF TokenAgreed, TypeInv, TypeOK, GoTo
<1> QED BY <1>1, <1>2, <1>3, <1>4, <1>5, <1>6 DEF PairingCommand, Stop

LEMMA TokenStep == ASSUME TokenInv, [Next]_vars PROVE TokenInv'
<1>1. TypeInv'
  BY TypeStep DEF TokenInv
<1>2. ASSUME ~withdrawn' PROVE TokenAgreed'
  <2>1. CASE UNCHANGED vars \/ Expire
    BY <1>2, <2>1 DEF vars, Expire, TokenInv, TokenAgreed
  <2>2. ASSUME NEW p \in Processes, InitCommand(p) \/ ServeCommand(p) \/ PairingCommand(p) \/ Die(p)
        PROVE  TokenAgreed'
    BY <1>2, <2>2, TokenFileStep, OtherTokenStep DEF ServeCommand
  <2> QED BY <2>1, <2>2 DEF Next
<1> QED BY <1>1, <1>2 DEF TokenInv

LEMMA TokenInvariant == Spec => []TokenInv
BY TokenInit, TokenStep, PTL DEF Spec

(* However many servers and pairing commands run, fail and die in one      *)
(* directory, they all name the token of its file (validate.go             *)
(* EnsureToken): the exclusive creation gives it one writer.               *)
THEOREM TokenIsOne == Spec => []OneToken
<1>1. TokenInv => OneToken
  BY DEF TokenInv, TokenAgreed, OneToken
<1> QED BY <1>1, TokenInvariant, PTL

----------------------------------------------------------------------------
(* One pin, with one server at a time: what it has loaded is what the file *)
(* says, a certificate has one writer, and what was shown fits both.       *)
Securing == {"cert", "cert_write", "key", "key_write", "pair"}

Fits(k) == IF config.mode = "off" THEN k = None ELSE cert \in Certificates /\ k = cert.key

PairAgreed ==
    /\ \A p, q \in Processes : pc[p] \in ServeStates /\ pc[q] \in ServeStates => p = q
    /\ \A p \in Processes :
        /\ pc[p] = "init_write" => config = Partial
        /\ pc[p] \in Configured => conf[p] = config
        /\ pc[p] \in Securing => conf[p].mode # "off"
        /\ pc[p] = "cert_write" => cert = Partial
        /\ pc[p] \in {"key", "key_write"} => cert = [key |-> pairKey[p], host |-> config.public]
        /\ pc[p] = "start" => Fits(pairKey[p])
    /\ \A p, q \in Processes : pc[p] = "init_write" /\ pc[q] = "init_write" => p = q
    /\ \A s \in shown : config \in Configs /\ Fits(s.pin)

PairInv == TokenInv /\ (~overlap /\ ~withdrawn => PairAgreed)

LEMMA PairInit == Init => PairInv
BY TokenInit DEF Init, PairInv, PairAgreed, Securing

(* A process goes on without a change of the configuration or the          *)
(* certificate.                                                            *)
LEMMA PairKept ==
    ASSUME PairAgreed, TypeInv, NEW p \in Processes, NEW to, GoTo(p, to),
           UNCHANGED <<config, cert>>,
           NEW c, conf' = [conf EXCEPT ![p] = c],
           NEW k, pairKey' = [pairKey EXCEPT ![p] = k],
           \A s \in shown' : config \in Configs /\ Fits(s.pin),
           to \in ServeStates => pc[p] \in ServeStates,
           to # "init_write", to # "cert_write",
           to \in Configured => c = config,
           to \in Securing => c.mode # "off",
           to \in {"key", "key_write"} => pc[p] \in {"key", "key_write"} /\ k = pairKey[p],
           to = "start" => Fits(k)
    PROVE  PairAgreed'
<1> USE DEF PairAgreed, TypeInv, TypeOK, GoTo, Securing
<1>1. \A r \in Processes :
        /\ pc'[r] = IF r = p THEN to ELSE pc[r]
        /\ conf'[r] = IF r = p THEN c ELSE conf[r]
        /\ pairKey'[r] = IF r = p THEN k ELSE pairKey[r]
  OBVIOUS
<1>2. \A x : Fits(x) <=> (IF config'.mode = "off" THEN x = None ELSE cert' \in Certificates /\ x = cert'.key)
  BY DEF Fits
<1>4. \A a, b \in Processes : pc'[a] \in ServeStates /\ pc'[b] \in ServeStates => a = b
  BY <1>1
<1>5. \A a, b \in Processes : pc'[a] = "init_write" /\ pc'[b] = "init_write" => a = b
  BY <1>1
<1>6. ASSUME NEW r \in Processes
      PROVE  /\ pc'[r] = "init_write" => config' = Partial
             /\ pc'[r] \in Configured => conf'[r] = config'
             /\ pc'[r] \in Securing => conf'[r].mode # "off"
             /\ pc'[r] = "cert_write" => cert' = Partial
             /\ pc'[r] \in {"key", "key_write"} =>
                   cert' = [key |-> pairKey'[r], host |-> config'.public]
             /\ pc'[r] = "start" => Fits(pairKey'[r])
  BY <1>1
<1>7. \A r \in Processes : pc'[r] = "start" => Fits(pairKey[r])'
  BY <1>2, <1>6 DEF Fits
<1>8. \A s \in shown' : config' \in Configs /\ Fits(s.pin)
  OBVIOUS
<1>9. (\A s \in shown : Fits(s.pin))'
  BY <1>2, <1>8 DEF Fits
<1> QED BY <1>4, <1>5, <1>6, <1>7, <1>8, <1>9

LEMMA EndKeepsPair ==
    ASSUME PairAgreed, TypeInv, NEW p \in Processes, End(p), UNCHANGED <<config, cert, shown>>
    PROVE  PairAgreed'
<1>1. \A s \in shown' : config \in Configs /\ Fits(s.pin)
  BY DEF PairAgreed
<1>2. /\ GoTo(p, "idle") /\ UNCHANGED <<config, cert>>
      /\ conf' = [conf EXCEPT ![p] = None] /\ pairKey' = [pairKey EXCEPT ![p] = None]
  BY DEF End, Forget
<1>3. "idle" \notin ServeStates \cup Configured \cup Securing
  BY DEF Securing
<1> HIDE DEF ServeStates, Configured
<1> QED BY <1>1, <1>2, <1>3, PairKept

(* A step that changes neither configuration nor key of its process.       *)
LEMMA GoKeepsPair ==
    ASSUME PairAgreed, TypeInv, NEW p \in Processes, NEW to, GoTo(p, to),
           UNCHANGED <<config, cert, conf, pairKey, shown>>,
           to \in ServeStates => pc[p] \in ServeStates,
           to # "init_write", to # "cert_write",
           to \in Configured => pc[p] \in Configured,
           to \in Securing => conf[p].mode # "off",
           to \in {"key", "key_write"} => pc[p] \in {"key", "key_write"},
           to = "start" => Fits(pairKey[p])
    PROVE  PairAgreed'
<1>1. conf' = [conf EXCEPT ![p] = conf[p]] /\ pairKey' = [pairKey EXCEPT ![p] = pairKey[p]]
  BY DEF TypeInv, TypeOK
<1>2. \A s \in shown' : config \in Configs /\ Fits(s.pin)
  BY DEF PairAgreed
<1>3. to \in Configured => conf[p] = config
  BY DEF PairAgreed
<1> HIDE DEF ServeStates, Configured
<1> QED BY <1>1, <1>2, <1>3, PairKept

(* init *)
LEMMA InitPair ==
    ASSUME PairInv, ~overlap, ~withdrawn, ~withdrawn', NEW p \in Processes, InitCommand(p)
    PROVE  PairAgreed'
<1> USE NoneAssumption DEF PairInv, TokenInv
<1>1. CASE Quit(p) \/ CloseConfig(p)
  BY <1>1, EndKeepsPair DEF Quit, CloseConfig
<1>2. ASSUME NEW o \in Options, RunInit(p, o), ~Quit(p) PROVE PairAgreed'
  <2>1. PICK c \in Configs : GoTo(p, "init_open") /\ conf' = [conf EXCEPT ![p] = c]
                             /\ UNCHANGED <<config, cert, pairKey, shown>>
    BY <1>2, RenderedIsUsable DEF RunInit
  <2>2. /\ GoTo(p, "init_open") /\ UNCHANGED <<config, cert>>
        /\ conf' = [conf EXCEPT ![p] = c] /\ pairKey' = [pairKey EXCEPT ![p] = pairKey[p]]
    BY <2>1 DEF TypeInv, TypeOK
  <2>3. \A s \in shown' : config \in Configs /\ Fits(s.pin)
    BY <2>1 DEF PairAgreed
  <2>4. "init_open" \notin ServeStates \cup Configured \cup Securing
    BY DEF Securing
  <2>5. PairAgreed /\ TypeInv
    OBVIOUS
  <2> HIDE DEF ServeStates, Configured, PairInv, TokenInv
  <2> QED BY <2>2, <2>3, <2>4, <2>5, PairKept
<1>3. CASE (CreateConfig(p) /\ ~Quit(p)) \/ WriteConfig(p)
  <2>1. config \notin Configs
    BY <1>3 DEF CreateConfig, MayCreate, WriteConfig, PairAgreed
  <2>2. \A q \in Processes : pc[q] \notin Configured
    BY <2>1 DEF PairAgreed, TypeInv, LocalInv
  <2>3. shown = {}
    BY <2>1 DEF PairAgreed
  <2>4. \A q \in Processes : pc[q] = "init_write" => WriteConfig(p) /\ q = p
    BY <1>3 DEF CreateConfig, MayCreate, WriteConfig, PairAgreed
  <2>5. CASE CreateConfig(p) /\ ~Quit(p)
    BY <2>2, <2>3, <2>4, <2>5
       DEF CreateConfig, WriteConfig, MayCreate, PairAgreed, TypeInv, TypeOK, GoTo, Securing
  <2>6. CASE WriteConfig(p)
    BY <2>2, <2>3, <2>4, <2>6
       DEF WriteConfig, PairAgreed, TypeInv, TypeOK, GoTo, End, Forget, Securing
  <2> QED BY <1>3, <2>5, <2>6
<1> QED BY <1>1, <1>2, <1>3 DEF InitCommand

(* The token. *)
LEMMA TokenPair ==
    ASSUME PairInv, ~overlap, ~withdrawn, NEW p \in Processes,
           ReadToken(p) \/ MintToken(p) \/ RereadToken(p) \/ WriteToken(p) \/ CloseToken(p)
    PROVE  PairAgreed'
<1> USE DEF PairInv, TokenInv
<1>1. CASE End(p) /\ UNCHANGED <<config, cert, shown>>
  BY <1>1, EndKeepsPair
<1>2. CASE \E to \in {"mint", "reread", "token_write", "token_close"} :
              GoTo(p, to) /\ pc[p] \in {"token", "mint", "token_write"}
              /\ UNCHANGED <<config, cert, conf, pairKey, shown>>
  BY <1>2, GoKeepsPair DEF Securing
<1>3. CASE GoTo(p, AfterToken(p)) /\ pc[p] \in {"token", "reread", "token_close"}
           /\ UNCHANGED <<config, cert, conf, pairKey, shown>>
  <2>1. conf[p] = config /\ pairKey[p] = None
    BY <1>3 DEF PairAgreed, TypeInv, LocalInv
  <2>2. CASE conf[p].mode = "off"
    <3>1. AfterToken(p) = "start" /\ Fits(pairKey[p])
      BY <2>1, <2>2 DEF AfterToken, Fits
    <3> QED BY <1>3, <3>1, GoKeepsPair DEF Securing
  <2>3. CASE conf[p].mode # "off"
    <3>1. AfterToken(p) = "cert"
      BY <2>3 DEF AfterToken
    <3> QED BY <1>3, <2>3, <3>1, GoKeepsPair
  <2> QED BY <2>2, <2>3
<1> QED BY <1>1, <1>2, <1>3
        DEF ReadToken, MintToken, RereadToken, WriteToken, CloseToken, HaveToken, Quit, Refuse

(* The certificate. *)
LEMMA CertificatePair ==
    ASSUME PairInv, ~overlap, ~withdrawn, NEW p \in Processes,
           StatCertificate(p) \/ WriteCertificate(p) \/ CreateKey(p) \/ WriteKey(p) \/ LoadKeyPair(p)
    PROVE  PairAgreed'
<1> USE NoneAssumption DEF PairInv, TokenInv
<1>1. CASE End(p) /\ UNCHANGED <<config, cert, shown>>
  BY <1>1, EndKeepsPair
<1>2. CASE StatCertificate(p) /\ cert # None
  BY <1>2, GoKeepsPair DEF StatCertificate, MustGenerate, PairAgreed, Securing
<1>3. CASE (StatCertificate(p) /\ cert = None) \/ (WriteCertificate(p) /\ ~CutShort(p))
  <2>1. /\ pc[p] \in {"cert", "cert_write"} /\ cert \notin Certificates
        /\ conf[p] = config /\ config.mode # "off" /\ conf[p] \in Configs
    BY <1>3 DEF StatCertificate, WriteCertificate, Move, PairAgreed, Securing, Certificates,
                TypeInv, LocalInv
  <2>2. shown = {}
    BY <2>1 DEF PairAgreed, Fits
  <2>3. \A q \in Processes : pc[q] \in ServeStates => q = p
    BY <2>1 DEF PairAgreed
  <2>4. CASE StatCertificate(p) /\ cert = None
    <3>1. /\ GoTo(p, "cert_write") /\ cert' = Partial /\ UNCHANGED <<config, conf, shown>>
      BY <2>4 DEF StatCertificate, MustGenerate
    <3> QED BY <2>1, <2>2, <2>3, <3>1 DEF PairAgreed, TypeInv, TypeOK, GoTo, Securing
  <2>5. CASE WriteCertificate(p) /\ ~CutShort(p)
    <3>1. /\ GoTo(p, "key") /\ cert' = [key |-> pairKey[p], host |-> conf[p].public]
          /\ UNCHANGED <<config, conf, pairKey, shown>>
      BY <2>5 DEF WriteCertificate, NamedHost, Move
    <3> QED BY <2>1, <2>2, <2>3, <3>1 DEF PairAgreed, TypeInv, TypeOK, GoTo, Securing
  <2> QED BY <1>3, <2>4, <2>5
<1>4. CASE (CreateKey(p) \/ WriteKey(p)) /\ ~CutShort(p)
  <2>1. /\ pc[p] \in {"key", "key_write"} /\ UNCHANGED <<config, cert, conf, pairKey, shown>>
        /\ GoTo(p, "key_write") \/ GoTo(p, "pair")
    BY <1>4 DEF CreateKey, WriteKey, Move
  <2>2. conf[p].mode # "off"
    BY <2>1 DEF PairAgreed, Securing
  <2> QED BY <2>1, <2>2, GoKeepsPair
<1>5. CASE LoadKeyPair(p) /\ ~Quit(p) /\ ~Refuse(p)
  <2>1. /\ pc[p] = "pair" /\ GoTo(p, "start") /\ cert \in Certificates
        /\ pairKey' = [pairKey EXCEPT ![p] = cert.key] /\ UNCHANGED <<config, cert, conf, shown>>
    BY <1>5 DEF LoadKeyPair, KeyPairLoads, BothPresent
  <2>2. conf[p] = config /\ Fits(cert.key)
    BY <2>1 DEF PairAgreed, Securing, Fits
  <2>3. conf' = [conf EXCEPT ![p] = conf[p]]
    BY <2>1 DEF TypeInv, TypeOK
  <2>4. \A s \in shown' : config \in Configs /\ Fits(s.pin)
    BY <2>1 DEF PairAgreed
  <2>5. pc[p] \in ServeStates /\ "start" \notin Securing
    BY <2>1 DEF Securing
  <2> HIDE DEF ServeStates, Configured
  <2> QED BY <2>1, <2>2, <2>3, <2>4, <2>5, PairKept
<1> QED BY <1>1, <1>2, <1>3, <1>4, <1>5 DEF WriteCertificate, CreateKey, WriteKey, CutShort, Quit, Refuse

(* The start, pairing, death. *)
LEMMA CommandPair ==
    ASSUME PairInv, ~overlap, ~overlap', ~withdrawn, NEW p \in Processes,
           \/ RunServe(p) \/ LoadConfig(p, "load", "token") \/ StartApp(p) \/ Stop(p)
           \/ PairingCommand(p) \/ Die(p)
    PROVE  PairAgreed'
<1> USE NoneAssumption DEF PairInv, TokenInv
<1>1. CASE Quit(p) \/ Die(p)
  BY <1>1, EndKeepsPair DEF Quit, Die
<1>2. CASE RunServe(p)
  <2>1. /\ GoTo(p, "load") /\ \A q \in Processes \ {p} : pc[q] \notin ServeStates
        /\ UNCHANGED <<config, cert, conf, pairKey, shown>>
    BY <1>2 DEF RunServe, Move
  <2> QED BY <2>1 DEF PairAgreed, TypeInv, TypeOK, GoTo, Securing, Fits
<1>3. CASE RunPairing(p)
  BY <1>3, GoKeepsPair DEF RunPairing, Move, Securing
<1>4. ASSUME NEW from, NEW to, <<from, to>> \in {<<"load", "token">>, <<"pair_load", "pair_token">>},
             LoadConfig(p, from, to), ~Quit(p)
      PROVE  PairAgreed'
  <2>1. /\ pc[p] = from /\ GoTo(p, to) /\ conf' = [conf EXCEPT ![p] = config]
        /\ UNCHANGED <<config, cert, pairKey, shown>>
    BY <1>4 DEF LoadConfig
  <2>2. pairKey' = [pairKey EXCEPT ![p] = pairKey[p]]
    BY <2>1 DEF TypeInv, TypeOK
  <2>3. \A s \in shown' : config \in Configs /\ Fits(s.pin)
    BY <2>1 DEF PairAgreed
  <2> QED BY <1>4, <2>1, <2>2, <2>3, PairKept DEF Securing
<1>5. CASE PairingToken(p) /\ ~Quit(p)
  BY <1>5, GoKeepsPair DEF PairingToken, HaveToken, Securing
<1>6. CASE (ShowPairing(p) \/ StartApp(p)) /\ ~Quit(p)
  <2>1. conf[p] = config /\ config \in Configs
    BY <1>6 DEF ShowPairing, StartApp, PairAgreed, TypeInv, LocalInv
  <2>2. \A k \in Pin(conf[p]) : Fits(k)
    BY <2>1 DEF Pin, Fits
  <2>3. pc[p] = "start" => Fits(pairKey[p])
    BY DEF PairAgreed
  <2>4. \A s \in shown' : config \in Configs /\ Fits(s.pin)
    <3>1. \A s \in shown : config \in Configs /\ Fits(s.pin)
      BY DEF PairAgreed
    <3>2. CASE ShowPairing(p) /\ ~Quit(p)
      <4>1. shown' = shown \cup {[token |-> secret[p], pin |-> k] : k \in Pin(conf[p])}
        BY <3>2 DEF ShowPairing
      <4> QED BY <2>1, <2>2, <3>1, <4>1
    <3>3. CASE StartApp(p) /\ ~Quit(p)
      <4>1. shown' \subseteq shown \cup {[token |-> secret[p], pin |-> pairKey[p]]}
                            \cup {[token |-> secret[p], pin |-> k] : k \in Pin(conf[p])}
        BY <3>3 DEF StartApp
      <4>2. Fits(pairKey[p])
        BY <2>3, <3>3 DEF StartApp
      <4> QED BY <2>1, <2>2, <3>1, <4>1, <4>2
    <3> QED BY <1>6, <3>2, <3>3
  <2>5. PICK to \in {"idle", "serving"} : GoTo(p, to) /\ (to = "serving" => pc[p] = "start")
    BY <1>6 DEF ShowPairing, StartApp, End
  <2>6. /\ UNCHANGED <<config, cert>>
        /\ conf' = [conf EXCEPT ![p] = None] /\ pairKey' = [pairKey EXCEPT ![p] = None]
    BY <1>6 DEF ShowPairing, StartApp, End, Forget
  <2>7. to \notin Configured \cup Securing /\ (to \in ServeStates => pc[p] \in ServeStates)
    BY <2>5 DEF Securing
  <2>8. to \notin {"init_write", "cert_write", "key", "key_write", "start"}
    BY <2>5
  <2> HIDE DEF ServeStates, Configured
  <2> QED BY <2>4, <2>5, <2>6, <2>7, <2>8, PairKept
<1> QED BY <1>1, <1>2, <1>3, <1>4, <1>5, <1>6 DEF Stop, PairingCommand

(* What has gone wrong is not forgotten.                                   *)
LEMMA HistoryGrows ==
    ASSUME NEW p \in Processes,
           InitCommand(p) \/ ServeCommand(p) \/ PairingCommand(p) \/ Die(p)
    PROVE  (overlap => overlap') /\ (damaged => damaged') /\ (withdrawn => withdrawn')
<1>1. CASE UNCHANGED <<overlap, damaged, withdrawn>>
  BY <1>1
<1>2. CASE InitCommand(p)
  <2>1. UNCHANGED <<overlap, damaged>> /\ (UNCHANGED withdrawn \/ withdrawn' = TRUE)
    BY <1>2 DEF InitCommand, RunInit, CreateConfig, WriteConfig, CloseConfig, Quit
  <2> QED BY <2>1
<1>3. CASE RunServe(p) \/ Die(p)
  <2> DEFINE another == \E q \in Processes \ {p} : pc[q] \in ServeStates
             cut     == pc[p] \in Writing
  <2>1. withdrawn' = withdrawn
    BY <1>3 DEF RunServe, Die
  <2>2. overlap' = overlap \/ overlap' = (overlap \/ another)
    BY <1>3 DEF RunServe, Die
  <2>3. damaged' = damaged \/ damaged' = (damaged \/ cut)
    BY <1>3 DEF RunServe, Die
  <2> HIDE DEF another, cut
  <2>4. overlap => overlap'
    BY <2>2, Zenon
  <2>5. damaged => damaged'
    BY <2>3, Zenon
  <2> QED BY <2>1, <2>4, <2>5
<1>4. CASE ReadToken(p) \/ MintToken(p) \/ RereadToken(p) \/ WriteToken(p) \/ CloseToken(p)
  <2>1. UNCHANGED <<overlap, damaged>> /\ (UNCHANGED withdrawn \/ withdrawn' = TRUE)
    BY <1>4 DEF ReadToken, MintToken, RereadToken, WriteToken, CloseToken, HaveToken, Quit, Refuse
  <2> QED BY <2>1
<1>5. CASE StatCertificate(p) \/ WriteCertificate(p) \/ CreateKey(p) \/ WriteKey(p) \/ LoadKeyPair(p)
  <2>1. UNCHANGED <<overlap, withdrawn>> /\ (UNCHANGED damaged \/ damaged' = TRUE)
    BY <1>5 DEF StatCertificate, WriteCertificate, CreateKey, WriteKey, CutShort, LoadKeyPair, Quit,
                Refuse
  <2> QED BY <2>1
<1>6. CASE LoadConfig(p, "load", "token") \/ StartApp(p) \/ Stop(p) \/ PairingCommand(p)
  <2>1. CASE RunPairing(p) \/ PairingToken(p) \/ ShowPairing(p)
    BY <1>1, <2>1 DEF RunPairing, PairingToken, ShowPairing, HaveToken, Quit
  <2>2. CASE LoadConfig(p, "load", "token") \/ LoadConfig(p, "pair_load", "pair_token")
    BY <1>1, <2>2 DEF LoadConfig, Quit
  <2>3. CASE StartApp(p) \/ Stop(p)
    BY <1>1, <2>3 DEF StartApp, Stop, Quit
  <2> QED BY <1>6, <2>1, <2>2, <2>3 DEF PairingCommand
<1> QED BY <1>2, <1>3, <1>4, <1>5, <1>6 DEF ServeCommand

LEMMA PairStep == ASSUME PairInv, [Next]_vars PROVE PairInv'
<1>1. TokenInv'
  BY TokenStep DEF PairInv
<1>2. ASSUME ~overlap', ~withdrawn' PROVE PairAgreed'
  <2>1. CASE UNCHANGED vars \/ Expire
    BY <1>2, <2>1 DEF vars, Expire, PairInv, PairAgreed, Fits, Securing
  <2>2. ASSUME NEW p \in Processes, InitCommand(p) \/ ServeCommand(p) \/ PairingCommand(p) \/ Die(p)
        PROVE  PairAgreed'
    <3>1. ~overlap /\ ~withdrawn
      BY <1>2, <2>2, HistoryGrows
    <3> QED BY <1>2, <2>2, <3>1, InitPair, TokenPair, CertificatePair, CommandPair DEF ServeCommand
  <2> QED BY <2>1, <2>2 DEF Next
<1> QED BY <1>1, <1>2 DEF PairInv

LEMMA PairInvariant == Spec => []PairInv
BY PairInit, PairStep, PTL DEF Spec

(* With one server at a time a client that was paired stays paired: every  *)
(* later server and pairing page shows the same token and pin, whatever    *)
(* has failed or died in between (PrepareTLS, EnsureToken).                *)
THEOREM PairingIsLasting == Spec => []PairingStands
<1>1. PairInv => PairingStands
  <2> SUFFICES ASSUME PairInv, ~overlap, ~withdrawn, NEW a \in shown, NEW b \in shown PROVE a = b
    BY DEF PairingStands
  <2>1. a.token = b.token
    BY DEF PairInv, TokenInv, TokenAgreed
  <2>2. a.pin = b.pin
    BY DEF PairInv, PairAgreed, Fits
  <2>3. /\ a = [token |-> a.token, pin |-> a.pin]
        /\ b = [token |-> b.token, pin |-> b.pin]
    BY DEF PairInv, TokenInv, TypeInv, TypeOK
  <2> QED BY <2>1, <2>2, <2>3
<1> QED BY <1>1, PairInvariant, PTL

----------------------------------------------------------------------------
(* Why a start is refused.  Without a write that was cut short, a partial  *)
(* file has a process that still writes it, and a certificate whose key is *)
(* missing has one that is about to write it.                              *)
Sound ==
    /\ ~refused
    /\ token = Partial => \E p \in Processes : pc[p] = "token_write"
    /\ cert = Partial => \E p \in Processes : pc[p] = "cert_write"
    /\ cert \in Certificates =>
        /\ config \in Configs /\ cert.host = config.public
        /\ key = cert.key \/ \E p \in Processes : pc[p] \in {"key", "key_write"}
    /\ \A p \in Processes : pc[p] = "pair" => cert # None

CauseInv == PairInv /\ (~damaged /\ ~overlap /\ ~withdrawn => Sound)

LEMMA CauseInit == Init => CauseInv
BY PairInit, NoneAssumption DEF Init, CauseInv, Sound, Certificates

(* A process that writes neither token nor certificate comes and goes.     *)
LEMMA SoundKept ==
    ASSUME Sound, TypeInv, NEW p \in Processes, NEW to, GoTo(p, to),
           UNCHANGED <<token, cert, key, refused>>,
           cert \in Certificates => UNCHANGED config,
           pc[p] \notin {"token_write", "cert_write", "key", "key_write"},
           to = "pair" => cert # None
    PROVE  Sound'
BY DEF Sound, TypeInv, TypeOK, GoTo

LEMMA InitSound ==
    ASSUME CauseInv, PairInv', ~overlap, ~damaged, ~withdrawn, ~withdrawn', NEW p \in Processes,
           InitCommand(p)
    PROVE  Sound'
<1> USE NoneAssumption DEF CauseInv, PairInv, TokenInv
<1>1. PICK to \in {"idle", "init_open", "init_write", "init_close"} : GoTo(p, to)
  BY DEF InitCommand, RunInit, CreateConfig, WriteConfig, CloseConfig, Quit, End
<1>2. pc[p] \in {"idle", "init_open", "init_write", "init_close"}
  BY DEF InitCommand, RunInit, CreateConfig, WriteConfig, CloseConfig
<1>3. UNCHANGED <<token, cert, key, refused>>
  BY DEF InitCommand, RunInit, CreateConfig, WriteConfig, CloseConfig, Quit
<1>4. cert \in Certificates => UNCHANGED config
  <2>1. cert \in Certificates => config \in Configs
    BY DEF Sound
  <2>2. config \in Configs => UNCHANGED config
    BY DEF InitCommand, RunInit, CreateConfig, WriteConfig, CloseConfig, Quit, MayCreate, PairAgreed
  <2> QED BY <2>1, <2>2
<1> QED BY <1>1, <1>2, <1>3, <1>4, SoundKept

LEMMA TokenSound ==
    ASSUME CauseInv, ~overlap, ~damaged, ~withdrawn, ~withdrawn', NEW p \in Processes,
           ReadToken(p) \/ MintToken(p) \/ RereadToken(p) \/ WriteToken(p) \/ CloseToken(p)
    PROVE  Sound'
<1> USE NoneAssumption DEF CauseInv, PairInv, TokenInv
<1>1. pc[p] \in {"token", "reread"} => token # Partial
  BY DEF Sound, PairAgreed
<1>2. ~Refuse(p)
  BY <1>1 DEF ReadToken, RereadToken, Refuse, ValidToken, TypeInv, TypeOK, MintToken, WriteToken, CloseToken,
              HaveToken, Quit, Sound
<1>3. UNCHANGED <<config, cert, key, refused>>
  BY <1>2 DEF ReadToken, MintToken, RereadToken, WriteToken, CloseToken, HaveToken, Quit
<1>4. PICK to \in {"idle", "mint", "reread", "token_write", "token_close", "start", "cert"} :
        GoTo(p, to) /\ (token' = Partial => token = Partial \/ to = "token_write")
  BY <1>2 DEF ReadToken, MintToken, RereadToken, WriteToken, CloseToken, HaveToken, Quit, End, AfterToken,
              TypeInv, LocalInv, Removed
<1>5. pc[p] = "token_write" => token' # Partial
  BY DEF ReadToken, MintToken, RereadToken, WriteToken, CloseToken, Removed, TypeInv, LocalInv
<1>6. pc[p] \in {"token", "mint", "reread", "token_write", "token_close"}
  BY DEF ReadToken, MintToken, RereadToken, WriteToken, CloseToken
<1> QED BY <1>3, <1>4, <1>5, <1>6 DEF Sound, TypeInv, TypeOK, GoTo

LEMMA CertificateSound ==
    ASSUME CauseInv, PairInv', ~overlap, ~damaged, ~damaged', ~withdrawn, NEW p \in Processes,
           StatCertificate(p) \/ WriteCertificate(p) \/ CreateKey(p) \/ WriteKey(p) \/ LoadKeyPair(p)
    PROVE  Sound'
<1> USE NoneAssumption DEF CauseInv, PairInv, TokenInv
<1>1. \A q \in Processes : pc[p] \in ServeStates /\ pc[q] \in ServeStates => q = p
  BY DEF PairAgreed
<1>2. ~CutShort(p)
  BY DEF CutShort
<1>3. CASE StatCertificate(p)
  <2>1. CASE cert = None
    <3>1. cert' = Partial /\ GoTo(p, "cert_write") /\ UNCHANGED <<config, token, key, refused>>
      BY <1>3, <2>1 DEF StatCertificate, MustGenerate
    <3> QED BY <1>3, <3>1, <1>1 DEF StatCertificate, Sound, TypeInv, TypeOK, GoTo, Certificates
  <2>2. CASE cert # None
    BY <1>3, <2>2, SoundKept DEF StatCertificate, MustGenerate
  <2> QED BY <2>1, <2>2
<1>4. CASE WriteCertificate(p)
  <2>1. /\ GoTo(p, "key") /\ cert' = [key |-> pairKey[p], host |-> conf[p].public]
        /\ UNCHANGED <<config, token, key, refused>> /\ pc[p] = "cert_write"
    BY <1>2, <1>4 DEF WriteCertificate, NamedHost, Move
  <2>2. conf[p] = config /\ config \in Configs
    BY <2>1 DEF PairAgreed, TypeInv, LocalInv
  <2>3. cert' # Partial /\ cert' # None
    <3>1. pairKey[p] \in Secrets /\ conf[p].public \in Hosts
      BY <2>1, <2>2 DEF TypeInv, LocalInv, Configs
    <3> QED BY <2>1, <3>1
  <2> QED BY <1>1, <2>1, <2>2, <2>3 DEF Sound, TypeInv, TypeOK, GoTo
<1>5. CASE CreateKey(p)
  <2>1. GoTo(p, "key_write") /\ pc[p] = "key" /\ UNCHANGED <<config, token, cert, refused>>
    BY <1>2, <1>5 DEF CreateKey, Move
  <2> QED BY <2>1 DEF Sound, TypeInv, TypeOK, GoTo
<1>6. CASE WriteKey(p)
  <2>1. /\ GoTo(p, "pair") /\ pc[p] = "key_write" /\ key' = pairKey[p]
        /\ UNCHANGED <<config, token, cert, refused>>
    BY <1>2, <1>6 DEF WriteKey, Move
  <2>2. cert = [key |-> pairKey[p], host |-> config.public]
    BY <2>1 DEF PairAgreed
  <2>3. cert # None /\ key' = cert.key
    <3>1. pairKey[p] \in Secrets /\ conf[p] = config /\ conf[p] \in Configs
      BY <2>1 DEF PairAgreed, TypeInv, LocalInv
    <3> QED BY <2>1, <2>2, <3>1 DEF Configs
  <2> QED BY <1>1, <2>1, <2>3 DEF Sound, TypeInv, TypeOK, GoTo
<1>7. CASE LoadKeyPair(p)
  <2>1. pc[p] = "pair" /\ conf[p] = config
    BY <1>7 DEF LoadKeyPair, PairAgreed
  <2>2. cert \in Certificates
    BY <1>1, <2>1 DEF Sound, TypeInv, TypeOK
  <2>3. key = cert.key /\ cert.host = config.public
    BY <1>1, <2>1, <2>2 DEF Sound
  <2>4. KeyPairLoads
    BY <2>2, <2>3 DEF KeyPairLoads, BothPresent, Certificates
  <2>5. ~Refuse(p) \/ expired
    BY <1>7, <2>1, <2>3, <2>4 DEF LoadKeyPair, Refuse, Quit, Sound
  <2>6. UNCHANGED <<config, token, cert, key, refused>> /\ \E to \in {"idle", "start"} : GoTo(p, to)
    BY <1>7, <2>1, <2>3, <2>4 DEF LoadKeyPair, Quit, End
  <2> QED BY <2>1, <2>6, SoundKept
<1> QED BY <1>3, <1>4, <1>5, <1>6, <1>7

LEMMA CommandSound ==
    ASSUME CauseInv, ~overlap, ~damaged, ~damaged', ~withdrawn, NEW p \in Processes,
           \/ RunServe(p) \/ LoadConfig(p, "load", "token") \/ StartApp(p) \/ Stop(p)
           \/ PairingCommand(p) \/ Die(p)
    PROVE  Sound'
<1> USE DEF CauseInv, PairInv, TokenInv
<1>1. UNCHANGED <<config, token, cert, key, refused>>
  BY DEF RunServe, LoadConfig, StartApp, Stop, PairingCommand, RunPairing, PairingToken,
         HaveToken, ShowPairing, Die, Quit
<1>2. \E to \in {"idle", "load", "token", "serving", "pair_load", "pair_token", "pair_show"} : GoTo(p, to)
  BY DEF RunServe, LoadConfig, StartApp, Stop, PairingCommand, RunPairing, PairingToken,
         HaveToken, ShowPairing, Die, Quit, End, Move
<1>3. pc[p] \notin {"token_write", "cert_write", "key", "key_write"}
  BY DEF RunServe, LoadConfig, StartApp, Stop, PairingCommand, RunPairing, PairingToken,
         HaveToken, ShowPairing, Die, Move, Writing
<1> QED BY <1>1, <1>2, <1>3, SoundKept

LEMMA CauseStep == ASSUME CauseInv, [Next]_vars PROVE CauseInv'
<1>1. PairInv'
  BY PairStep DEF CauseInv
<1>2. ASSUME ~damaged', ~overlap', ~withdrawn' PROVE Sound'
  <2>1. CASE UNCHANGED vars \/ Expire
    BY <1>2, <2>1 DEF vars, Expire, CauseInv, Sound
  <2>2. ASSUME NEW p \in Processes, InitCommand(p) \/ ServeCommand(p) \/ PairingCommand(p) \/ Die(p)
        PROVE  Sound'
    <3>1. ~damaged /\ ~overlap /\ ~withdrawn
      BY <1>2, <2>2, HistoryGrows
    <3> QED BY <1>1, <1>2, <2>2, <3>1, InitSound, TokenSound, CertificateSound, CommandSound
            DEF ServeCommand
  <2> QED BY <2>1, <2>2 DEF Next
<1> QED BY <1>1, <1>2 DEF CauseInv

(* A server refuses what it finds only after a write was cut short, a      *)
(* second server ran beside it or a close has taken a file back; every     *)
(* other failure or death leaves what the next start can use (serve.go     *)
(* prepareServe).                                                          *)
THEOREM StartIsRefusedForACause == Spec => []StartFailsForACause
<1>1. CauseInv => StartFailsForACause
  BY DEF CauseInv, Sound, StartFailsForACause
<1>2. CauseInv /\ [Next]_vars => CauseInv'
  BY CauseStep
<1> QED BY <1>1, <1>2, CauseInit, PTL DEF Spec
=============================================================================
