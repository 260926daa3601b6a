----------------------------- MODULE MCMqttSessions -----------------------------
(* Small instances of MqttSessions for TLC. *)
EXTENDS MqttSessions, TLC

\* Every client id is a spelling of the MAC address of the one device.
MCOneDevice == [id \in EspIds |-> CHOOSE m \in Macs : TRUE]

\* Devices with one spelling each, all of one owner.
MCOneSpelling == [id \in EspIds |-> id]
MCOwner == [m \in Macs |-> "owner"]

\* Connections, devices and the ids of users are interchangeable.
Symmetry == Permutations(Conns) \cup Permutations(Macs) \cup Permutations(UserIds)
================================================================================
