---------------------------- MODULE MCImageLayers ----------------------------
(* Module ImageLayers, ready for TLC. *)
EXTENDS ImageLayers, TLC

CONSTANTS db, mk, bin1, bin2, dir, elf, lib, txt, openssl, bash, libcrypto, libssl

\* One directory holds the database and a binary.
MCBelow == dir :> {db, bin1}

\* Two kinds of binaries and a text, each of which could also be a database.
MCInstalled == (elf :> {bash}) @@ (lib :> {openssl, bash}) @@ (txt :> {openssl})
MCNeeded == (elf :> {libcrypto, libssl}) @@ (lib :> {libcrypto}) @@ (txt :> {})
=============================================================================
