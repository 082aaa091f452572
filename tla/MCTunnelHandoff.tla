--------------------------- MODULE MCTunnelHandoff ---------------------------
(* Small instances of TunnelHandoff for TLC: the server accepts the        *)
(* socket, and then any few symbols follow.                                *)
EXTENDS TunnelHandoff

Symbols == {"pong", "open", "bad", "nl"}

ShortStreams == {<<"ok", "nl">> \o rest : rest \in [1 .. 5 -> Symbols]}
=============================================================================
