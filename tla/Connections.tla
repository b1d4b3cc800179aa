---------------------------- MODULE Connections -----------------------------
(***************************************************************************)
(* How the agent reaches others: the dialer and its cache of names, the    *)
(* tunnel through a proxy, the upgrade to a WebSocket and the download of  *)
(* a release.  They share no variable; what they promise together is here. *)
(***************************************************************************)
EXTENDS Dialing, Tunnel, Handshake, Downloads

(***************************************************************************)
(* A connection goes where the settings say and brings what may be         *)
(* trusted.  The address dialed is one the host has, or had within the     *)
(* life of a cache entry, the preferred family first (dns.rs); a host the  *)
(* exceptions name is never sent to the proxy and every other one is, with *)
(* no byte behind the proxy's answer lost (proxy.rs); a WebSocket is one   *)
(* the server accepted for this key, and the bytes behind the head of its  *)
(* answer are the first of its frames; what the agent then sends the       *)
(* server finds frame by frame and unmasks as it was (ws.rs); a release is *)
(* one the selector asked for, its digest the manifest's, and the token of *)
(* the repository sent to its origin only (update.rs).                     *)
(***************************************************************************)
ConnectionsSound ==
    DialsTheHost /\ TunnelsRight /\ UpgradeProven /\ FramesArrive /\ DownloadsTrusted

=============================================================================
