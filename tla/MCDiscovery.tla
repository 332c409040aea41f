---------------------------- MODULE MCDiscovery -----------------------------
(* Up to four nodes; what a node has is chosen from many when it is alone.   *)
EXTENDS Discovery

Node(markers, gpus) == [markers |-> markers, gpus |-> gpus, integral |-> TRUE]
Half == [markers |-> {2}, gpus |-> 1, integral |-> FALSE]   \* 1.5 GPUs

Scenario(kind, listed) == [kind |-> kind, offers |-> listed, wanted |-> {}, limit |-> 1]
Links(listed, wanted, limit) ==
  [kind |-> "links", offers |-> listed, wanted |-> wanted, limit |-> limit]

One  == <<Node({1}, 2)>>
Four == [n \in 1 .. 4 |-> Node({n}, 0)]

MCScenarios ==
  {Scenario(kind, listed) :
     kind \in {"gpu", "planner"},
     listed \in {<<Node({2}, 1), Node({1}, 1)>>, <<Node({2}, 2), Node({1}, 1), Node({3}, 0)>>,
                <<Node({1}, 1), Node({1}, 1)>>, <<Node({1}, 1), Half>>, <<Node({1, 2}, 1)>>, One, <<Node({1}, 3)>>}}
  \cup {Scenario("nic", listed) :
     listed \in {<<Node({2}, 0), Node({1}, 1)>>, <<Node({1}, 0), Node({3}, 0), Node({}, 1)>>,
                <<Node({1}, 0), Node({1}, 0)>>, <<Node({1}, 0), Node({2, 3}, 0)>>, <<Node({}, 1)>>, One}}
  \cup {Links(Four, wanted, limit) : wanted \in {{}, {1, 3}}, limit \in 1 .. 3}
  \cup {Links(Four, {1, 5}, 1), Links(Four, {2}, 1), Links(<<Node({1}, 0), Node({1}, 0)>>, {}, 1)}

(* The slots of a GPU whose peer is the other one; device 3 is a switch.     *)
Slot(to, state, remote) == [to |-> to, state |-> state, remote |-> remote]
SlotKinds(peer) ==
  <<Slot(Off, TRUE, TRUE), Slot(Off, FALSE, TRUE), Slot(3, TRUE, TRUE), Slot(3, TRUE, FALSE),
    Slot(peer, TRUE, TRUE), Slot(peer, TRUE, FALSE), Slot(peer, FALSE, TRUE)>>
TwoSlots(peer) == {<<SlotKinds(peer)[p[1]], SlotKinds(peer)[p[2]]>> :
                    p \in {q \in (1 .. 7) \X (1 .. 7) : q[1] <= q[2]}}

(* Two GPUs with any two links each, one GPU, two models, none. *)
Plain == [devices |-> <<"a">>, links |-> << <<Slot(Off, TRUE, TRUE)>> >>]
Linked ==
  {[devices |-> <<"a", "a">>, links |-> links] :
     links \in {l \in {<<p, q>> : p \in TwoSlots(2), q \in TwoSlots(1)} : TwoEnded(l)}}
Mixed == [devices |-> <<"a", "b">>,
          links   |-> << <<Slot(Off, TRUE, TRUE)>>, <<Slot(Off, TRUE, TRUE)>> >>]
GpuHosts == {Plain, Mixed, [devices |-> <<>>, links |-> <<>>]}

(* Two interfaces and two RDMA devices at any of two addresses or none.      *)
HostUevents == {"p1", "p2", "noslot", "eacces"}
Numbers == {[text |-> "int", int |-> 0], [text |-> "int", int |-> -1],
            [text |-> "eacces", int |-> 0], [text |-> "einval", int |-> 0]}
Nic(uevent, number) ==
  [uevent |-> uevent, number |-> number, loopback |-> FALSE, virtual |-> uevent = "noslot"]
Zero == [text |-> "int", int |-> 0]
Host(nics, rdma, listed) == [nics |-> nics, rdma |-> rdma, listed |-> listed]
Both == {"net", "infiniband"}
Rdma(uevent) == [uevent |-> uevent, port |-> IF uevent = "p1" THEN "eacces" ELSE "active"]
Hosts ==
  {Host([n1 |-> Nic(u[1], number), n2 |-> Nic(u[2], Zero)],
        [r1 |-> Rdma(u[3]), r2 |-> Rdma(u[4])], Both) :
     u \in [1 .. 4 -> HostUevents], number \in Numbers}
  \cup {Host([n1 |-> Nic("p1", Zero)], [r1 |-> Rdma("p1")], listed) : listed \in SUBSET Both}
Bare == Host([n1 |-> Nic("p1", Zero)], <<>>, Both)

(* The only node of a scenario may have any hardware. *)
MCHardware(scene, node) ==
  LET alone == scene.offers = One
  IN IF scene.kind = "nic"
     THEN IF alone THEN Hosts ELSE {Bare, Host(<<>>, [r1 |-> Rdma("p1")], Both)}
     ELSE IF alone THEN GpuHosts \cup Linked ELSE GpuHosts
=============================================================================
