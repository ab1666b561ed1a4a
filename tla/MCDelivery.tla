------------------------------ MODULE MCDelivery ------------------------------
EXTENDS DeliveryProperties

CONSTANTS email, macos, daemon, cli

\* The configuration was edited after the daemon read it.
MCConfigured == [p \in {daemon, cli} |->
                    IF p = daemon THEN {email, macos} ELSE {email}]

\* The daemon runs where there is no osascript.
MCMute == [p \in {daemon, cli} |-> IF p = daemon THEN {macos} ELSE {}]
=============================================================================
