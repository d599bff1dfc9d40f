-------------------------------- MODULE Wifi --------------------------------
(***************************************************************************)
(* The Wi-Fi join of firmware/src/ota.c: wifi_join() starts a join in the  *)
(* background, wifi_tick() polls the link, gives up and tries again.       *)
(*                                                                         *)
(* External: the radio.  The link goes up, down and wrong as it likes, a   *)
(* join or a scan may fail to start.  Time is counted in units of many     *)
(* ticks.  Left out: the mDNS name, announced at the first connection and  *)
(* never withdrawn; the names a scan prints.                               *)
(*                                                                         *)
(* The module has no specification of its own: Boot composes it.           *)
(***************************************************************************)
EXTENDS Naturals

CONSTANTS
  JOIN_TIMEOUT,         \* WIFI_JOIN_TIMEOUT_MS
  WIFI_RETRY            \* WIFI_RETRY_MS

ASSUME WifiAssumption == JOIN_TIMEOUT \in Nat \ {0} /\ WIFI_RETRY \in Nat \ {0}

VARIABLES
  wifi_state,
  since,                \* the time since wifi_since_ms
  link,                 \* what cyw43_tcpip_link_status() says
  scanning              \* cyw43_wifi_scan_active()

wifiVars == <<wifi_state, since, link, scanning>>

\* PENDING: down, joining or without an address; FAIL: also a wrong password.
Broken == {"NONET", "FAIL"}
Links == {"PENDING", "UP"} \cup Broken

\* Time is counted no further than the longer timeout.
MAX_SINCE == IF JOIN_TIMEOUT > WIFI_RETRY THEN JOIN_TIMEOUT ELSE WIFI_RETRY

Elapsed(t, d, max) == IF t + d < max THEN t + d ELSE max

WifiTypeOK ==
  /\ wifi_state \in {"WIFI_JOINING", "WIFI_UP", "WIFI_WAIT"}
  /\ since \in 0 .. MAX_SINCE
  /\ link \in Links
  /\ scanning \in BOOLEAN

\* Zeroed memory, before ota_init() starts the first join.
WifiZero ==
  /\ wifi_state = "WIFI_JOINING" /\ since = 0 /\ link = "PENDING"
  /\ scanning = FALSE

WifiZeroed ==
  /\ wifi_state' = "WIFI_JOINING" /\ since' = 0 /\ link' = "PENDING"
  /\ scanning' = FALSE

-----------------------------------------------------------------------------
\* The radio: the link changes, a scan comes to its end.
LinkChanges == link' \in Links \ {link} /\ UNCHANGED <<wifi_state, since, scanning>>

ScanEnds == scanning /\ scanning' = FALSE /\ UNCHANGED <<wifi_state, since, link>>

\* wifi_join(): what an earlier join came to is forgotten, or the join does
\* not start.
wifi_join ==
  /\ \/ wifi_state' = "WIFI_JOINING" /\ link' = "PENDING"
     \/ wifi_state' = "WIFI_WAIT" /\ UNCHANGED link
  /\ since' = 0
  /\ UNCHANGED scanning

\* cyw43_wifi_leave(), to join again later.
Leave == wifi_state' = "WIFI_WAIT" /\ since' = 0 /\ link' = "PENDING"

\* wifi_tick() with a join that came up.
Joined ==
  /\ wifi_state = "WIFI_JOINING" /\ link = "UP"
  /\ wifi_state' = "WIFI_UP"
  /\ UNCHANGED <<link, scanning>>

\* Faulty variant: a join that hangs is waited for.
GiveUp_no_timeout(elapsed) ==
  /\ wifi_state = "WIFI_JOINING" /\ link \in Broken
  /\ Leave
  /\ scanning' \in IF link = "NONET" THEN {scanning, TRUE} ELSE {scanning}

\* wifi_tick() with a join that failed or takes too long.  If the network was
\* not found, a scan (that may fail to start) lists those that are.
GiveUp(elapsed) ==
  /\ wifi_state = "WIFI_JOINING"
  /\ link \in Broken \/ (link = "PENDING" /\ elapsed >= JOIN_TIMEOUT)
  /\ Leave
  /\ scanning' \in IF link = "NONET" THEN {scanning, TRUE} ELSE {scanning}

\* wifi_tick() with a connection that is lost.
Lost ==
  /\ wifi_state = "WIFI_UP" /\ link # "UP"
  /\ Leave
  /\ UNCHANGED scanning

Retry(elapsed) ==
  /\ wifi_state = "WIFI_WAIT" /\ elapsed >= WIFI_RETRY /\ ~scanning
  /\ wifi_join

\* wifi_tick(), d after the one before.
wifi_tick(d) ==
  LET elapsed == Elapsed(since, d, MAX_SINCE)
  IN  \/ Joined /\ since' = elapsed
      \/ GiveUp(elapsed) \/ Lost \/ Retry(elapsed)
      \/ /\ \/ wifi_state = "WIFI_JOINING" /\ link = "PENDING" /\ elapsed < JOIN_TIMEOUT
            \/ wifi_state = "WIFI_UP" /\ link = "UP"
            \/ wifi_state = "WIFI_WAIT" /\ (elapsed < WIFI_RETRY \/ scanning)
         /\ since' = elapsed
         /\ UNCHANGED <<wifi_state, link, scanning>>
=============================================================================
