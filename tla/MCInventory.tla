---------------------------- MODULE MCInventory ----------------------------
(* Small instances of Inventory: the surroundings of the host and backend.  *)
EXTENDS Inventory

\* One push at a time beside an operator who removes sites, edits them, or
\* does that to the server as well, or beside two who remove sites at once;
\* pushes that overlap, of either profile.
Removed == [profile |-> "PLESK", items |-> {"d1", "d2"}, steady |-> FALSE,
            pushes |-> {"p1"}, operators |-> {"o1"}, asked |-> {"remove"}, services |-> {"absent"}]
RemovedTogether == [Removed EXCEPT !.operators = {"o1", "o2"}, !.steady = TRUE]
Edited == [Removed EXCEPT !.asked = {"rename", "move"}]
Served == [Removed EXCEPT !.items = {"d1"}, !.asked = {"enter", "remove", "servers"}]
Overlapping == [Served EXCEPT !.pushes = {"p1", "p2"}, !.asked = {}, !.services = {"stopped", "absent"}]
Guests == [Overlapping EXCEPT !.profile = "PROXMOX", !.services = {"absent"}]
RemovedGuests == [Guests EXCEPT !.pushes = {"p1"}, !.asked = {"servers"}]
Alerted == [Removed EXCEPT !.items = {}, !.asked = {"servers"}, !.services = {"stopped"}]
AllWorlds == {Removed, RemovedTogether, Edited, Served, Overlapping, Guests, RemovedGuests, Alerted}

Services == {[Served EXCEPT !.asked = {"servers"}, !.services = {"running", "stopped"}]}
=============================================================================
