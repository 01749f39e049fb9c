------------------------------- MODULE MCConfig -------------------------------
(* One field of each kind: a text, a number, a flag, an option and        *)
(* quic_proxy_addr.                                                         *)
EXTENDS Config

MCFields == {"rpc_addr", "fanout_size", "enable_postgres", "identity_keypair",
             "quic_proxy_addr"}
=============================================================================
