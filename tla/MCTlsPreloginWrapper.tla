------------------------- MODULE MCTlsPreloginWrapper -------------------------
(* TlsPreloginWrapper with a handshake of three flights and a half.          *)
EXTENDS TlsPreloginWrapper

\* The server answers two flights, the client sends the last one (TLS 1.3).
\* The first flight of the client does not fit into one packet.
SmallFlights == <<[c |-> 5, s |-> 3], [c |-> 7, s |-> 5], [c |-> 8, s |-> 5]>>

==============================================================================
