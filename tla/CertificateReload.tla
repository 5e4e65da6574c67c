------------------------- MODULE CertificateReload --------------------------
(***************************************************************************)
(* The renewal of the TLS identity: TlsIdentityRefreshController and       *)
(* load_tls_identity (src/server_config.rs) on the interval of             *)
(* spawn_tls_refresh, with the operator who replaces the certificate chain *)
(* and the private key, a file at a time, and the tick that stops the      *)
(* server at the deadline (bin/secure_dedicated_server.rs).                *)
(*                                                                         *)
(* A chain is the time for which it is valid, a key the chain it belongs   *)
(* to.  Monotonic time starts at 0, when the chain is loaded and the wall  *)
(* clock shows Anchor.  The wall clock may be set back or run ahead        *)
(* afterwards.  Between the load and the first interval the program waits  *)
(* for the identity provider, as long as that takes.                       *)
(***************************************************************************)
EXTENDS Integers

CONSTANTS
  Chains,            \* validity of a certificate chain, [from, until]
  Anchor,            \* wall_clock_anchor
  ReloadEvery,       \* the reload interval
  Margin,            \* MIN_TLS_CERTIFICATE_REMAINING_SECONDS
  ReloadTime,        \* longest time one reload takes
  MaxAhead,          \* how far the wall clock may run ahead
  MaxCertTime        \* bound of the clock

ASSUME CertificateAssumption ==
  /\ Chains \subseteq [from: Nat, until: Nat]
  /\ {Anchor, Margin, ReloadTime, MaxAhead, MaxCertTime} \subseteq Nat
  /\ ReloadEvery \in Nat \ {0}
  /\ ReloadTime <= ReloadEvery

VARIABLES
  certNow,           \* Instant::now()
  chainFile, keyFile,
  inPlaceSince,      \* when a file was last replaced (auxiliary)
  reload,            \* the reload in progress, and when the next is due
  tickingSince,      \* when the interval began (auxiliary)
  installed,         \* the chain of the endpoint's configuration
  safetyDeadline,
  serving

files == <<chainFile, keyFile, inPlaceSince>>
identity == <<installed, safetyDeadline>>
CertVars == <<certNow, files, reload, tickingSince, identity, serving>>

NoChain == [from |-> 0, until |-> 0]
NoReload == [at |-> "rest", due |-> 0, began |-> 0, clock |-> 0, chain |-> NoChain]

MinimumRemaining == ReloadEvery + Margin

(* validate_certificate_lifetimes                                          *)
Lasts(chain, clock) ==
  chain.from <= clock /\ chain.until > clock + MinimumRemaining

(* certificate_safety_deadline                                             *)
Deadline(chain, clock, began) == began + (chain.until - clock - Margin)

(* SecureAuthorityLaunchConfig::load                                       *)
CertInit ==
  /\ certNow = 0
  /\ chainFile \in {c \in Chains : Lasts(c, Anchor)}
  /\ keyFile = chainFile
  /\ inPlaceSince = 0
  /\ reload = [NoReload EXCEPT !.at = "starting"]
  /\ tickingSince = 0
  /\ installed = chainFile
  /\ safetyDeadline = Deadline(chainFile, Anchor, 0)
  /\ serving = TRUE

-----------------------------------------------------------------------------
(* A reload that is due starts, and one that started ends, in time; so     *)
(* does the tick that finds the deadline.  How long a start takes is open. *)
CertElapse ==
  /\ certNow < MaxCertTime
  /\ serving /\ reload.at # "starting" =>
       /\ certNow < safetyDeadline
       /\ IF reload.at = "rest" THEN certNow < reload.due
                                ELSE certNow < reload.began + ReloadTime
  /\ certNow' = certNow + 1
  /\ UNCHANGED <<files, reload, tickingSince, identity, serving>>

ReplaceChain(c) ==
  /\ chainFile' = c
  /\ inPlaceSince' = certNow
  /\ UNCHANGED <<certNow, keyFile, reload, tickingSince, identity, serving>>

ReplaceKey(c) ==
  /\ keyFile' = c
  /\ inPlaceSince' = certNow
  /\ UNCHANGED <<certNow, chainFile, reload, tickingSince, identity, serving>>

-----------------------------------------------------------------------------
(* spawn_tls_refresh, once refresh_before_ready and start have returned:   *)
(* the first tick of the interval is at once, and reloads nothing.         *)
SpawnRefresh ==
  /\ reload.at = "starting"
  /\ reload' = [NoReload EXCEPT !.due = certNow + ReloadEvery]
  /\ tickingSince' = certNow
  /\ UNCHANGED <<certNow, files, identity, serving>>

(* refresh_once                                                            *)

CertDueLate == reload.due + ReloadEvery * ((certNow - reload.due) \div ReloadEvery + 2)

CertDue == reload.due + ReloadEvery * ((certNow - reload.due) \div ReloadEvery + 1)

(* monotonic_unix_seconds: the wall clock, not below the time that has     *)
(* passed since the start.                                                 *)
Floored(observed) ==
  IF observed > Anchor + certNow THEN observed ELSE Anchor + certNow

StartReload ==
  /\ serving /\ reload.at = "rest" /\ certNow >= reload.due
  /\ \E observed \in 0..Anchor + certNow + MaxAhead :
       reload' = [at |-> "chain", due |-> CertDue, began |-> certNow,
                  clock |-> Floored(observed), chain |-> NoChain]
  /\ UNCHANGED <<certNow, files, tickingSince, identity, serving>>

ReadChain ==
  /\ reload.at = "chain"
  /\ reload' = [reload EXCEPT !.at = "key", !.chain = chainFile]
  /\ UNCHANGED <<certNow, files, tickingSince, identity, serving>>

(* A chain that is not valid yet or expires too soon, a key of another     *)
(* chain, an unreadable file or a chain that is installed already leaves   *)
(* everything as it is.                                                    *)
Acceptable ==
  /\ Lasts(reload.chain, reload.clock)
  /\ keyFile = reload.chain
  /\ reload.chain # installed

ReadKey ==
  /\ reload.at = "key"
  /\ IF Acceptable
     THEN /\ installed' = reload.chain
          /\ safetyDeadline' = Deadline(reload.chain, reload.clock, reload.began)
     ELSE UNCHANGED identity
  /\ reload' = [NoReload EXCEPT !.due = reload.due]
  /\ UNCHANGED <<certNow, files, tickingSince, serving>>

(* trust_deadline_error                                                    *)
StopServing ==
  /\ serving /\ reload.at # "starting" /\ certNow >= safetyDeadline
  /\ serving' = FALSE
  /\ reload' = NoReload
  /\ UNCHANGED <<certNow, files, tickingSince, identity>>

-----------------------------------------------------------------------------
CertNext ==
  \/ CertElapse
  \/ \E c \in Chains : ReplaceChain(c) \/ ReplaceKey(c)
  \/ SpawnRefresh \/ StartReload \/ ReadChain \/ ReadKey \/ StopServing

CertSpec == CertInit /\ [][CertNext]_CertVars

-----------------------------------------------------------------------------
CertTypeOK ==
  /\ certNow \in 0..MaxCertTime
  /\ chainFile \in Chains /\ keyFile \in Chains
  /\ inPlaceSince \in 0..MaxCertTime
  /\ reload \in [at: {"starting", "rest", "chain", "key"}, due: Nat, began: Nat,
                 clock: Nat, chain: {NoChain} \cup Chains]
  /\ tickingSince \in 0..certNow
  /\ installed \in Chains
  /\ safetyDeadline \in Nat
  /\ serving \in BOOLEAN

(* However the wall clock is set and whichever files a reload finds, the   *)
(* server stops while the chain it presents has the margin left, by the    *)
(* clock it started with (server_config.rs: refresh_once,                  *)
(* monotonic_unix_seconds).                                                *)
CertificateDeadlineHonest == Anchor + safetyDeadline + Margin <= installed.until

(* A renewal that the server can use an interval and a reload before its   *)
(* deadline keeps it up: chain and key are in place together, the chain is *)
(* valid by the clock the server started with, and the interval runs       *)
(* (server_config.rs: refresh_once, load_tls_identity,                     *)
(* validate_certificate_lifetimes; secure_dedicated_server.rs:             *)
(* refresh_before_ready, spawn_tls_refresh).                               *)
Later(s, t) == IF s > t THEN s ELSE t

UsableSince == Later(Later(inPlaceSince, tickingSince), chainFile.from - Anchor)

Renewed ==
  /\ chainFile = keyFile /\ chainFile # installed
  /\ chainFile.until > Anchor + safetyDeadline + MaxAhead + MinimumRemaining
  /\ UsableSince + ReloadEvery + ReloadTime < safetyDeadline

RenewalIsInTime == ~serving => ~Renewed
=============================================================================
