------------------------------ MODULE MCConnect ------------------------------
(***************************************************************************)
(* Connect for TLC: a serial port, a usb port and a blacklisted port.      *)
(***************************************************************************)
EXTENDS Connect

CONSTANTS serial, usb, banned

MCPorts == {serial, usb, banned}
MCPaths == {{serial, banned}, {serial, usb, banned}}
MCPreferred == {serial, banned}
MCBlacklist == {banned}
=============================================================================
