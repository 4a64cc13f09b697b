------------------------- MODULE KamstrupManagement -------------------------
(***************************************************************************)
(* The management port of the Kamstrup meter:                              *)
(* protocols/kamstrup/management_protocol (commands.py,                    *)
(* command_responder.py, kamstrup_management_server.py).  A command is the *)
(* list of settings it stores on the databus, one after the other; a       *)
(* parameter that cannot be parsed raises in the middle of the list, keeps *)
(* what was stored before, and ends the connection without an answer.      *)
(***************************************************************************)
EXTENDS Integers, Sequences, FiniteSets

CONSTANTS Clients,
          Requests,    \* sequences of words, the command first
          Number,      \* words that are numbers -> their values
          MaxRequests

VARIABLES config,     \* the settings on the databus
          reboots,    \* how often the meter server was told to restart
          handler,    \* per client: "recv", "sleep", or how it ended
          held,       \* per client: the words it is being answered
          handled     \* how many requests have been handled

vars == <<config, reboots, handler, held, handled>>

Disabled == "0.0.0.0"
Raises == "raises"

\* What the template gives each setting, where a command tells it apart.
Settings == {"access_control_status", "access_control_1", "access_control_16",
             "alarm_server_status", "alarm_server_ip", "alarm_server_port",
             "kap_a_server_ip", "kap_a_server_hostname", "kap_a_server_port",
             "kap_b_server_ip", "kap_b_server_port", "use_dhcp", "ip_addr",
             "ip_subnet", "ip_gateway", "nameserver_1", "nameserver_2",
             "nameserver_3", "device_name", "kap_server_lookup",
             "software_watchdog", "kap_missing_warning", "keep_alive_timer",
             "channel_a_port", "channel_b_port", "serial_settings_a",
             "serial_settings_b", "channel_a_connect_socket",
             "channel_b_connect_socket", "reboot_signal"}

Template == [s \in Settings |->
    CASE s \in {"access_control_status", "alarm_server_status"} -> "DISABLED"
      [] s \in {"access_control_1", "kap_b_server_ip"} -> Disabled
      [] s = "use_dhcp" -> "YES"
      [] s = "reboot_signal" -> "0"
      [] OTHER -> "initial"]

Init ==
    /\ config = Template /\ reboots = 0 /\ handled = 0
    /\ handler = [c \in Clients |-> "recv"]
    /\ held = [c \in Clients |-> <<>>]

----------------------------------------------------------------------------
(* Words: the addresses and the numbers that are told apart.               *)

IsNumber(word) == word \in DOMAIN Number

\* An address with dots is taken as it is when each part is an octet.  The
\* form without dots, three digits an octet, is made of integers that cannot
\* be joined again; other words are no integers at all.
ParseIp(word) ==
    CASE word \in {"10.0.0.1", Disabled} -> word
      [] word = "10.0.0.1.9" \/ IsNumber(word) -> Disabled
      [] OTHER -> Raises

IsPort(word) == IsNumber(word) /\ Number[word] \in 1..65535
TryParseUint(word, min) == IF IsNumber(word) /\ Number[word] >= min THEN word ELSE "0"

Store(s, value) == << <<s, value>> >>
StoreIp(s, word) == Store(s, ParseIp(word))
StorePort(s, word) == IF IsPort(word) THEN Store(s, word) ELSE <<>>
StoreNth(words, n, store) == IF Len(words) >= n THEN store ELSE <<>>

(* The settings that a command stores, in order.                           *)
AccessControl(p) ==
    CASE p = <<"0">> -> Store("access_control_status", "DISABLED")
      [] p = <<"1">> -> Store("access_control_status", "ENABLED")
      [] Len(p) = 3 /\ p[1] = "0" /\ p[2] \in {"1", "16"} /\ p[3] \in {"10.0.0.1", Disabled} ->
           StoreIp(IF p[2] = "1" THEN "access_control_1" ELSE "access_control_16", p[3])
      [] OTHER -> <<>>

AlarmServer(p) ==
    IF p = <<>> THEN <<>>
    ELSE Store("alarm_server_status", "ENABLED") \o StoreIp("alarm_server_ip", p[1])
         \o StoreNth(p, 2, StorePort("alarm_server_port", p[2]))

SetKap1(p) ==
    IF p = <<>> THEN <<>>
    ELSE StoreIp("kap_a_server_ip", p[1]) \o Store("kap_a_server_hostname", "0 - none")
         \o StoreNth(p, 2, StorePort("kap_a_server_port", p[2]))

SetKap2(p) ==
    IF p = <<>> THEN <<>>
    ELSE StoreIp("kap_b_server_ip", p[1])
         \o StoreNth(p, 2, StorePort("kap_b_server_port", p[2]))

SetConfig(p) ==
    (IF Len(p) < 10 THEN <<>>
     ELSE (IF p[1] = "1" THEN Store("use_dhcp", "YES")
           ELSE Store("use_dhcp", "NO") \o StoreIp("ip_addr", p[2])
                \o StoreIp("ip_subnet", p[3]) \o StoreIp("ip_gateway", p[4]))
          \o StoreIp("nameserver_1", p[5]) \o StoreIp("nameserver_2", p[6])
          \o StoreIp("nameserver_3", p[7])
          \o (IF p[10] = "0"
              THEN StoreIp("kap_a_server_ip", p[8]) \o Store("kap_a_server_hostname", "0 - none")
              ELSE Store("kap_a_server_hostname", p[10]) \o StoreIp("kap_a_server_ip", p[8]))
          \o Store("device_name", p[9]))
    \o Store("reboot_signal", "1")

SetDeviceName(p) ==
    Store("device_name", IF p = <<>> THEN "" ELSE p[1]) \o Store("reboot_signal", "1")

SetLookup(p) ==
    CASE p = <<>> -> <<>>
      [] p = <<"0">> -> Store("kap_server_lookup", "0 - none")
      [] OTHER -> Store("kap_server_lookup", p[1])

SetIP(p) ==
    CASE p = <<>> -> <<>>
      [] p # <<>> /\ ParseIp(p[1]) = Raises -> StoreIp("ip_addr", p[1])
      [] p # <<>> /\ ParseIp(p[1]) \notin {Raises, Disabled} ->
           Store("use_dhcp", "NO") \o StoreIp("ip_addr", p[1]) \o Store("reboot_signal", "1")
      [] p # <<>> /\ ParseIp(p[1]) = Disabled /\ config["use_dhcp"] = "NO" ->
           Store("use_dhcp", "YES") \o Store("ip_addr", "dhcp") \o Store("ip_gateway", "dhcp")
           \o Store("ip_subnet", "dhcp") \o Store("reboot_signal", "1")
      [] OTHER -> <<>>

SetWatchdog(p) ==
    IF p = <<>> THEN <<>>
    ELSE Store("software_watchdog", TryParseUint(p[1], 5))
         \o StoreNth(p, 2, Store("kap_missing_warning", TryParseUint(p[2], 0)))
         \o StoreNth(p, 3, Store("keep_alive_timer", TryParseUint(p[3], 0)))

SetNameserver(p) ==
    IF Len(p) # 3 THEN <<>>
    ELSE StoreIp("nameserver_1", p[1]) \o StoreIp("nameserver_2", p[2])
         \o StoreIp("nameserver_3", p[3])

SetPorts(p) ==
    IF p = <<>> THEN <<>>
    ELSE StorePort("kap_a_server_port", p[1])
         \o StoreNth(p, 2, StorePort("channel_a_port", p[2]))
         \o StoreNth(p, 3, StorePort("channel_b_port", p[3]))

\* The settings of a channel: !SS and !RC.
PerChannel(p, a, b) ==
    CASE Len(p) = 2 /\ p[1] = "A" -> Store(a, p[2])
      [] Len(p) = 2 /\ p[1] = "B" -> Store(b, p[2])
      [] OTHER -> <<>>

(* respond: the command decides; H, !GC, !GV, !WM, quit and unknown        *)
(* commands store nothing.                                                 *)
Stores(request) ==
    LET p == Tail(request) IN
    CASE request[1] = "!AC" -> AccessControl(p)
      [] request[1] = "!AS" -> AlarmServer(p)
      [] request[1] = "!SA" -> SetKap1(p)
      [] request[1] = "!SB" -> SetKap2(p)
      [] request[1] = "!SC" -> SetConfig(p)
      [] request[1] = "!SD" -> SetDeviceName(p)
      [] request[1] = "!SH" -> SetLookup(p)
      [] request[1] = "!SI" -> SetIP(p)
      [] request[1] = "!SK" -> SetWatchdog(p)
      [] request[1] = "!SN" -> SetNameserver(p)
      [] request[1] = "!SP" -> SetPorts(p)
      [] request[1] = "!SS" -> PerChannel(p, "serial_settings_a", "serial_settings_b")
      [] request[1] = "!RC" -> PerChannel(p, "channel_a_connect_socket", "channel_b_connect_socket")
      [] request[1] = "!RR" -> Store("reboot_signal", "1")
      [] OTHER -> <<>>

\* respond returns None for these, and the server takes that for quit.
Closes(request) == request[1] \in {"Q", "!SC", "!RR"}

Breaks(stores) == \E i \in DOMAIN stores : stores[i][2] = Raises

\* Mutant of Kept: a value that does not parse is left out.
KeptAll(stores) == {i \in DOMAIN stores : stores[i][2] # Raises}

\* What is stored before the command raises.
Kept(stores) == {i \in DOMAIN stores : \A j \in 1..i : stores[j][2] # Raises}

Stored(stores) ==
    [s \in Settings |->
       LET at == {i \in Kept(stores) : stores[i][1] = s}
       IN  IF at = {} THEN config[s]
           ELSE stores[CHOOSE i \in at : \A j \in at : j <= i][2]]

----------------------------------------------------------------------------
(* A request is received and carried out; the answer waits for a quarter   *)
(* of a second.  Setting reboot_signal to what it is notifies nobody.      *)
Receive(c) ==
    /\ handler[c] = "recv" /\ handled < MaxRequests
    /\ \E request \in Requests :
         LET stores == Stores(request) IN
         /\ config' = Stored(stores)
         /\ reboots' = reboots + IF config'["reboot_signal"] # config["reboot_signal"] THEN 1 ELSE 0
         /\ handler' = [handler EXCEPT ![c] = IF Breaks(stores) THEN "broken" ELSE "sleep"]
         /\ held' = [held EXCEPT ![c] = IF Breaks(stores) THEN <<>> ELSE request]
    /\ handled' = handled + 1

Answer(c) ==
    /\ handler[c] = "sleep"
    /\ handler' = [handler EXCEPT ![c] = IF Closes(held[c]) THEN "closed" ELSE "recv"]
    /\ held' = [held EXCEPT ![c] = <<>>]
    /\ UNCHANGED <<config, reboots, handled>>

\* The client closes, or comes back.
Disconnect(c) ==
    /\ handler[c] = "recv"
    /\ handler' = [handler EXCEPT ![c] = "closed"]
    /\ UNCHANGED <<config, reboots, held, handled>>

Connect(c) ==
    /\ handler[c] \in {"broken", "closed"}
    /\ handler' = [handler EXCEPT ![c] = "recv"]
    /\ UNCHANGED <<config, reboots, held, handled>>

Next == \E c \in Clients : Receive(c) \/ Answer(c) \/ Disconnect(c) \/ Connect(c)

Spec == Init /\ [][Next]_vars

----------------------------------------------------------------------------
TypeOK ==
    /\ DOMAIN config = Settings /\ \A s \in Settings : config[s] # Raises
    /\ reboots \in 0..handled /\ handled \in 0..MaxRequests
    /\ \A c \in Clients : /\ handler[c] \in {"recv", "sleep", "broken", "closed"}
                          /\ held[c] \in Requests \cup {<<>>}
                          /\ held[c] # <<>> <=> handler[c] = "sleep"

\* A configuration that was stored only in part is not made active: the
\* command that breaks off in the middle restarts nothing, as its restart
\* comes after its last setting (commands.py:377-407, 494-510).
HalfStoredIsNotActivated ==
    [][ \A c \in Clients :
          (handler[c] = "recv" /\ handler'[c] = "broken") => reboots' = reboots ]_vars
=============================================================================
