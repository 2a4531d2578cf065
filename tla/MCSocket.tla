------------------------------ MODULE MCSocket ------------------------------
(* Small instances of Socket for TLC. *)
EXTENDS Socket

CONSTANTS u, s1, s2

(* One datagram socket and two SSL sockets, one of which may be accepted. *)
UdpAndSsl == [o \in Objects |-> IF o = u THEN "udp" ELSE "ssl"]

(* The datagram socket, a server's socket, a client's or an accepted one *)
Roles == [o \in Objects |-> IF o = u THEN {"udp"} ELSE IF o = s1 THEN {"bind"}
                            ELSE {"connect", "reconnect"}]
=============================================================================
