---------------------------- MODULE QuekkaConfig ----------------------------
(***************************************************************************)
(* The configuration of src/quekka/Quekka_config.c as operators on its two *)
(* fields.  A string is a sequence of characters, its NUL left out; a port *)
(* has two bytes.                                                          *)
(***************************************************************************)
EXTENDS Naturals, SequencesExt

CONSTANTS
  Hosts,      \* the strings callers name before the ":", up to 63 characters
  Ports,      \* the ports callers name, 0 for a string without one
  ADDRSTRLEN, \* INET_ADDRSTRLEN, the size of the field _ip
  BYTE        \* the values of a byte

ASSUME ConfigAssumption ==
  /\ BYTE \in Nat \ {0, 1} /\ Ports \subseteq 0..(BYTE * BYTE - 1)
  /\ ADDRSTRLEN \in Nat \ {0} /\ Hosts \subseteq Seq(Nat)

htons(n) == (n % BYTE) * BYTE + n \div BYTE

Quekka_config_init == [_ip |-> <<>>, _port |-> 0]

\* Whether the copy of set_address stays within _ip.
Fits(ip) == Len(ip) <= ADDRSTRLEN

\* The characters of an ip that fits, and no NUL, over those of the last one;
\* the port in host order.  An address without ":" returns -1, but was written
\* all the same.
Quekka_config_set_address(config, ip, port) ==
  [_ip |-> ip \o SubSeq(config._ip, Len(ip) + 1, Len(config._ip)), _port |-> port]

\* The field is cleared, and filled by a copy of its own size.
Quekka_config_set_ip(config, ip) ==
  [config EXCEPT !._ip = IF Fits(ip) THEN ip ELSE SubSeq(ip, 1, ADDRSTRLEN)]

Quekka_config_set_port(config, port) == [config EXCEPT !._port = htons(port)]
=============================================================================
