--------------------------- MODULE DataDirectory ---------------------------
(***************************************************************************)
(* The data directory during the first start: init creates config.yaml,    *)
(* serve creates the token, the certificate and its key, pairing prints    *)
(* what a client needs.  The commands are processes of their own, that run *)
(* side by side, fail at any call and die between any two of them; nothing *)
(* but the file system holds what they agree on.                           *)
(***************************************************************************)
EXTENDS Configuration

CONSTANTS
    Processes,  \* what runs the commands, one after the other
    Options,    \* the flags init is called with
    Secrets,    \* the random values: tokens and private keys
    Faults,     \* the calls that may fail on their own
    None,       \* no value, no file
    Partial     \* a file that is there but not complete

ASSUME OptionsAssumption == Options \subseteq InitOptions
ASSUME FaultsAssumption == Faults \subseteq {"write", "close", "start"}
ASSUME NoneAssumption ==
    /\ None # Partial
    /\ {None, Partial} \cap (Secrets \cup Configs \cup [key: Secrets, host: Hosts]) = {}

VARIABLES
    config, token, cert, key,  \* the files: None, Partial or what is in them
    expired,    \* the certificate is past its 365 days
    pc,         \* where the command of each process is
    conf,       \* the configuration it renders or has loaded
    secret,     \* the token it holds
    pairKey,    \* the private key it has generated or loaded
    refused,    \* history: a server refused the token, the key pair or the name it found
    used,       \* history: the secrets generated so far
    shown,      \* history: token and pin of every server and pairing output
    overlap,    \* history: two servers ran on the directory at once
    damaged,    \* history: a write was cut short and left its file behind
    withdrawn   \* history: a file was removed after it had been complete

files   == <<config, token, cert, key>>
locals  == <<conf, secret, pairKey>>
history == <<shown, refused, overlap, damaged, withdrawn>>
vars == <<files, expired, pc, locals, used, history>>

----------------------------------------------------------------------------
InitStates == {"init_open", "init_write", "init_close"}

ServeStates == {"load", "token", "mint", "reread", "token_write", "token_close", "cert", "cert_write",
                "key", "key_write", "pair", "start", "serving"}

PairingStates == {"pair_load", "pair_token", "pair_show"}

Certificates == [key: Secrets, host: Hosts]

Init ==
    /\ config = None /\ token = None /\ cert = None /\ key = None
    /\ expired = FALSE
    /\ pc = [p \in Processes |-> "idle"]
    /\ conf = [p \in Processes |-> None]
    /\ secret = [p \in Processes |-> None]
    /\ pairKey = [p \in Processes |-> None]
    /\ used = {}
    /\ shown = {}
    /\ refused = FALSE /\ overlap = FALSE /\ damaged = FALSE /\ withdrawn = FALSE

GoTo(p, state) == pc' = [pc EXCEPT ![p] = state]

Move(p, from, to) == pc[p] = from /\ GoTo(p, to)

Forget(p) ==
    /\ conf' = [conf EXCEPT ![p] = None]
    /\ secret' = [secret EXCEPT ![p] = None]
    /\ pairKey' = [pairKey EXCEPT ![p] = None]

(* The command ends, with success or with an error. *)
End(p) == GoTo(p, "idle") /\ Forget(p)

(* Stop at this step: nothing on disk changes. *)
Quit(p) ==
    /\ End(p)
    /\ UNCHANGED <<files, expired, used, history>>

(* A server stops because of what an earlier one should have left usable. *)
Refuse(p) ==
    /\ End(p)
    /\ refused' = TRUE
    /\ UNCHANGED <<files, expired, used, shown, overlap, damaged, withdrawn>>

Generate(s) == s \notin used /\ used' = used \cup {s}

----------------------------------------------------------------------------
(* init *)

RunInit(p, o) ==
    /\ pc[p] = "idle"
    /\ IF config # None
       THEN Quit(p)
       ELSE \/ Rendered(o) = {} /\ Quit(p)
            \/ \E c \in Rendered(o) :
                 /\ GoTo(p, "init_open")
                 /\ conf' = [conf EXCEPT ![p] = c]
                 /\ UNCHANGED <<files, expired, secret, pairKey, used, history>>

(* Defect: a file is created without O_EXCL. *)
CreateAnyway(file) == TRUE

MayCreate(file) == file = None

CreateConfig(p) ==
    /\ pc[p] = "init_open"
    /\ IF MayCreate(config)
       THEN /\ config' = Partial
            /\ GoTo(p, "init_write")
            /\ UNCHANGED <<token, cert, key, expired, locals, used, history>>
       ELSE Quit(p)

(* A write or a close that fails takes the file back. *)
WriteConfig(p) ==
    /\ pc[p] = "init_write"
    /\ \/ /\ config' = conf[p]
          /\ GoTo(p, "init_close")
          /\ UNCHANGED locals
       \/ /\ "write" \in Faults
          /\ config' = None
          /\ End(p)
    /\ UNCHANGED <<token, cert, key, expired, used, history>>

CloseConfig(p) ==
    /\ pc[p] = "init_close"
    /\ \/ End(p) /\ UNCHANGED <<config, withdrawn>>
       \/ /\ "close" \in Faults
          /\ config' = None
          /\ withdrawn' = TRUE
          /\ End(p)
    /\ UNCHANGED <<token, cert, key, expired, used, shown, refused, overlap, damaged>>

----------------------------------------------------------------------------
(* serve: prepareServe, then Build and Start as one step that may fail.    *)

RunServe(p) ==
    /\ Move(p, "idle", "load")
    /\ overlap' = (overlap \/ \E q \in Processes \ {p} : pc[q] \in ServeStates)
    /\ UNCHANGED <<files, expired, locals, used, shown, refused, damaged, withdrawn>>

Loadable == config \in Configs /\ Accepts(config)

LoadConfig(p, from, to) ==
    /\ pc[p] = from
    /\ IF Loadable
       THEN /\ GoTo(p, to)
            /\ conf' = [conf EXCEPT ![p] = config]
            /\ UNCHANGED <<files, expired, secret, pairKey, used, history>>
       ELSE Quit(p)

(* ReadToken: a token has at least 32 bytes. *)
ValidToken(t) == t \in Secrets

AfterToken(p) == IF conf[p].mode = "off" THEN "start" ELSE "cert"

HaveToken(p, next) ==
    /\ GoTo(p, next)
    /\ secret' = [secret EXCEPT ![p] = token]
    /\ UNCHANGED <<files, expired, conf, pairKey, used, history>>

(* EnsureToken: read, else create exclusively, else read what another      *)
(* process has created in the meantime.                                    *)
ReadToken(p) ==
    /\ pc[p] = "token"
    /\ IF ValidToken(token) THEN HaveToken(p, AfterToken(p))
       ELSE IF token # None THEN Refuse(p)
       ELSE GoTo(p, "mint") /\ UNCHANGED <<files, expired, locals, used, history>>

MintToken(p) ==
    /\ pc[p] = "mint"
    /\ IF MayCreate(token)
       THEN /\ token' = Partial
            /\ GoTo(p, "token_write")
            /\ \E s \in Secrets : Generate(s) /\ secret' = [secret EXCEPT ![p] = s]
            /\ UNCHANGED <<config, cert, key, expired, conf, pairKey, history>>
       ELSE GoTo(p, "reread") /\ UNCHANGED <<files, expired, locals, used, history>>

RereadToken(p) ==
    /\ pc[p] = "reread"
    /\ IF ValidToken(token) THEN HaveToken(p, AfterToken(p))
       ELSE IF token = None THEN Quit(p) ELSE Refuse(p)

(* Defect: a failed write leaves the file it has created. *)
LeftBehind == Partial

Removed == None

WriteToken(p) ==
    /\ pc[p] = "token_write"
    /\ \/ token' = secret[p] /\ GoTo(p, "token_close") /\ UNCHANGED locals
       \/ "write" \in Faults /\ token' = Removed /\ End(p)
    /\ UNCHANGED <<config, cert, key, expired, used, history>>

CloseToken(p) ==
    /\ pc[p] = "token_close"
    /\ \/ GoTo(p, AfterToken(p)) /\ UNCHANGED <<token, locals, withdrawn>>
       \/ /\ "close" \in Faults
          /\ token' = Removed
          /\ withdrawn' = TRUE
          /\ End(p)
    /\ UNCHANGED <<config, cert, key, expired, used, shown, refused, overlap, damaged>>

(* Defect: the certificate is made anew at every start. *)
AlwaysGenerate == TRUE

MustGenerate == cert = None

(* PrepareTLS; generateCertificate overwrites both files, one by one, and  *)
(* leaves what it has written when it fails.                               *)
StatCertificate(p) ==
    /\ pc[p] = "cert"
    /\ IF MustGenerate
       THEN /\ \E s \in Secrets : Generate(s) /\ pairKey' = [pairKey EXCEPT ![p] = s]
            /\ cert' = Partial
            /\ GoTo(p, "cert_write")
       ELSE /\ GoTo(p, "pair")
            /\ UNCHANGED <<cert, pairKey, used>>
    /\ UNCHANGED <<config, token, key, expired, conf, secret, history>>

(* Defect: the certificate is made out to the address listened on. *)
ListenHost(p) == conf[p].listen

NamedHost(p) == conf[p].public

CutShort(p) ==
    /\ "write" \in Faults
    /\ damaged' = TRUE
    /\ End(p)
    /\ UNCHANGED <<files, expired, used, shown, refused, overlap, withdrawn>>

WriteCertificate(p) ==
    \/ /\ Move(p, "cert_write", "key")
       /\ cert' = [key |-> pairKey[p], host |-> NamedHost(p)]
       /\ expired' = FALSE
       /\ UNCHANGED <<config, token, key, locals, used, history>>
    \/ pc[p] = "cert_write" /\ CutShort(p)

CreateKey(p) ==
    \/ /\ Move(p, "key", "key_write")
       /\ key' = Partial
       /\ UNCHANGED <<config, token, cert, expired, locals, used, history>>
    \/ pc[p] = "key" /\ CutShort(p)

WriteKey(p) ==
    \/ /\ Move(p, "key_write", "pair")
       /\ key' = pairKey[p]
       /\ UNCHANGED <<config, token, cert, expired, locals, used, history>>
    \/ pc[p] = "key_write" /\ CutShort(p)

(* Defect: the certificate is not compared with the key. *)
BothPresent == cert \in Certificates /\ key \in Secrets

KeyPairLoads == BothPresent /\ cert.key = key

LoadKeyPair(p) ==
    /\ pc[p] = "pair"
    /\ IF ~KeyPairLoads THEN Refuse(p)
       ELSE IF expired THEN Quit(p)
       ELSE IF cert.host # conf[p].public THEN Refuse(p)
       ELSE /\ GoTo(p, "start")
            /\ pairKey' = [pairKey EXCEPT ![p] = cert.key]
            /\ UNCHANGED <<files, expired, conf, secret, used, history>>

Pin(c) == IF c.mode = "off" THEN {None} ELSE IF cert \in Certificates THEN {cert.key} ELSE {}

(* The server answers with its key and accepts its token; its pairing page *)
(* shows the pin of the certificate file, if the public URL can be used.   *)
(* What it has loaded does not change any more: shown remembers it.        *)
StartApp(p) ==
    /\ pc[p] = "start"
    /\ \/ /\ GoTo(p, "serving")
          /\ Forget(p)
          /\ shown' = shown \cup {[token |-> secret[p], pin |-> pairKey[p]]}
                \cup {[token |-> secret[p], pin |-> k] :
                        k \in IF conf[p].public \in {"loop", "lan"} THEN Pin(conf[p]) ELSE {}}
          /\ UNCHANGED <<files, expired, used, refused, overlap, damaged, withdrawn>>
       \/ "start" \in Faults /\ Quit(p)

Stop(p) == pc[p] = "serving" /\ Quit(p)

----------------------------------------------------------------------------
(* pairing *)

RunPairing(p) ==
    /\ Move(p, "idle", "pair_load")
    /\ UNCHANGED <<files, expired, locals, used, history>>

PairingToken(p) ==
    /\ pc[p] = "pair_token"
    /\ IF ValidToken(token) THEN HaveToken(p, "pair_show")
       ELSE Quit(p)

ShowPairing(p) ==
    /\ pc[p] = "pair_show"
    /\ IF PairingHosts(conf[p]) = {} THEN Quit(p)
       ELSE IF Pin(conf[p]) = {} THEN Quit(p)
       ELSE /\ End(p)
            /\ shown' = shown \cup {[token |-> secret[p], pin |-> k] : k \in Pin(conf[p])}
            /\ UNCHANGED <<files, expired, used, refused, overlap, damaged, withdrawn>>

----------------------------------------------------------------------------
(* Between these two steps of a write its file is there but not complete;  *)
(* the key is missing from the certificate's first byte to its own last.   *)
Writing == {"init_write", "token_write", "cert_write", "key", "key_write"}

Die(p) ==
    /\ pc[p] # "idle"
    /\ End(p)
    /\ damaged' = (damaged \/ pc[p] \in Writing)
    /\ UNCHANGED <<files, expired, used, shown, refused, overlap, withdrawn>>

Expire ==
    /\ cert \in Certificates
    /\ expired' = TRUE
    /\ UNCHANGED <<files, pc, locals, used, history>>

InitCommand(p) ==
    \/ \E o \in Options : RunInit(p, o)
    \/ CreateConfig(p) \/ WriteConfig(p) \/ CloseConfig(p)

ServeCommand(p) ==
    \/ RunServe(p) \/ LoadConfig(p, "load", "token")
    \/ ReadToken(p) \/ MintToken(p) \/ RereadToken(p) \/ WriteToken(p) \/ CloseToken(p)
    \/ StatCertificate(p) \/ WriteCertificate(p) \/ CreateKey(p) \/ WriteKey(p)
    \/ LoadKeyPair(p) \/ StartApp(p) \/ Stop(p)

PairingCommand(p) ==
    RunPairing(p) \/ LoadConfig(p, "pair_load", "pair_token") \/ PairingToken(p) \/ ShowPairing(p)

Next ==
    \/ \E p \in Processes : InitCommand(p) \/ ServeCommand(p) \/ PairingCommand(p) \/ Die(p)
    \/ Expire

Spec == Init /\ [][Next]_vars

----------------------------------------------------------------------------
(* Every variable stays within the values its file or Go type can have;    *)
(* no part of a token or of a key is ever taken for the whole.             *)
TypeOK ==
    /\ config \in Configs \cup {None, Partial}
    /\ token \in Secrets \cup {None, Partial}
    /\ cert \in Certificates \cup {None, Partial}
    /\ key \in Secrets \cup {None, Partial}
    /\ pc \in [Processes -> {"idle"} \cup InitStates \cup ServeStates \cup PairingStates]
    /\ conf \in [Processes -> Configs \cup {None}]
    /\ secret \in [Processes -> Secrets \cup {None}]
    /\ pairKey \in [Processes -> Secrets \cup {None}]
    /\ used \subseteq Secrets
    /\ shown \subseteq [token: Secrets, pin: Secrets \cup {None}]
    /\ {expired, refused, overlap, damaged, withdrawn} \subseteq BOOLEAN

(* What init writes can be used: in the automatic mode serve accepts it    *)
(* (if it names a provider), and a server that only this machine can reach *)
(* is not announced under an address of the network (init.go               *)
(* resolveInitTLS, widenListenIfNeeded against validate.go Validate).      *)
UsableConfig ==
    config \in Configs /\ config.mode = "auto" =>
        /\ config.providers => Accepts(config)
        /\ IsLoopback(config.listen) => IsLoopback(config.public)

(* All servers and pairing outputs name the token that is in the file,     *)
(* however many processes created it, died or failed on the way: clients   *)
(* keep their access over restarts (validate.go EnsureToken).  Only a      *)
(* failing close takes a token back that somebody may have read.           *)
OneToken == ~withdrawn => \A s \in shown : s.token = token

(* A client that was paired once stays paired: with one server at a time,  *)
(* no crash or failed write makes a later one show another token or pin    *)
(* (validate.go EnsureToken, tls.go PrepareTLS).                           *)
PairingStands == ~overlap /\ ~withdrawn => \A a, b \in shown : a = b

(* A server refuses its own token, key pair or certificate only after some *)
(* write was cut short: whatever else failed or died, and while init and   *)
(* pairing run beside it, the next start finds what it needs or makes it   *)
(* (prepareServe).                                                         *)
StartFailsForACause ==
    refused => damaged \/ overlap \/ withdrawn
=============================================================================
