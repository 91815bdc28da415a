--------------------------- MODULE Configuration ---------------------------
(***************************************************************************)
(* What the init command writes to config.yaml (cmd/mast-selfhost/init.go, *)
(* init_prompt.go) and what serve and pairing make of it                   *)
(* (internal/config/validate.go, cmd/mast-selfhost/pairing.go).            *)
(*                                                                         *)
(* An address counts by its host only: none (":8443", or no URL at all),   *)
(* one that stands for every interface, a loopback one, or one that other  *)
(* machines can reach.  "bad" is a URL that is not an HTTPS root.          *)
(***************************************************************************)

Hosts == {"none", "any", "loop", "lan"}
Modes == {"auto", "files", "off"}

(* The flags of init.  listen has a default of 0.0.0.0:8443.               *)
InitOptions ==
    {o \in [mode: Modes, listen: Hosts, listenSet: BOOLEAN, public: Hosts \cup {"bad"},
            insecure: BOOLEAN, providers: BOOLEAN, ifMissing: BOOLEAN, interactive: BOOLEAN] :
        o.listenSet \/ o.listen = "any"}

(* The fields of a rendered file that a flag decides.                      *)
Configs == [mode: Modes, listen: Hosts, public: Hosts, insecure: BOOLEAN, providers: BOOLEAN]

(* loopbackHost and isLoopbackListen: no host at all counts as loopback. *)
IsLoopback(host) == host \in {"none", "loop"}

Inferable(listen) == listen \notin {"none", "any"}

(* Prompted: a number of the list, or a line that is a valid URL. *)
Prompted == {"any", "loop", "lan"}

(* The public URL: as given; that of a concrete listen address; or asked   *)
(* for, which needs a terminal.  None of them when init fails.             *)
PublicURLs(o) ==
    IF o.public # "none" THEN {o.public} \ {"bad"}
    ELSE IF o.mode # "auto" THEN {"none"}
    ELSE IF Inferable(o.listen)
            /\ (~IsLoopback(o.listen) \/ o.listenSet \/ ~o.interactive) THEN {o.listen}
    ELSE IF o.interactive THEN Prompted ELSE {}

(* Defect: the listen address stays as it was given. *)
AsGiven(listen, public) == listen

(* A loopback listen address could not be reached under the public URL. *)
WidenListen(listen, public) ==
    IF IsLoopback(listen) /\ ~IsLoopback(public) THEN "any" ELSE listen

(* The files init may write with these flags; none when it refuses them. *)
Rendered(o) ==
    {[mode |-> o.mode, listen |-> WidenListen(o.listen, url), public |-> url,
      insecure |-> o.insecure, providers |-> o.providers] : url \in PublicURLs(o)}

(* Validate, of a complete file as init wrote it: it names no certificate  *)
(* files, and its limits, intervals and log settings are in order.         *)
Accepts(c) ==
    /\ c.providers
    /\ \/ c.mode = "auto" /\ c.public # "none"
       \/ c.mode = "off" /\ (c.insecure \/ IsLoopback(c.listen))

(* The host the pairing command prints: one or none. *)
PairingHosts(c) ==
    (IF c.public # "none" THEN {c.public}
     ELSE IF Inferable(c.listen) THEN {c.listen} ELSE {}) \ {"any"}
=============================================================================
