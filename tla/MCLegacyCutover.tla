-------------------------- MODULE MCLegacyCutover ---------------------------
(* Small devices, companies and colleagues for the move to the cloud.      *)
EXTENDS LegacyCutover

CONSTANTS t1, t2, laptop, phone

TheLists == {"products", "parties"}

\* A product and a supplier of the devices, and a colleague's twin of the one.
TheIds == {"bolt", "acme", "twin"}

TheListOf == [i \in TheIds |-> IF i = "acme" THEN "parties" ELSE "products"]

TheTwins == {{"bolt", "twin"}}

Says(id, form) == [id |-> id, form |-> form]

Catalogue == {Says("bolt", "v1"), Says("acme", "v1")}

OneDevice == [t \in {t1, t2} |-> laptop]
TwoDevices == [t \in {t1, t2} |-> IF t = t1 THEN laptop ELSE phone]

Owners == [t \in {t1, t2} |-> "OWNER"]

OneDatabase(content) ==
    [d \in {laptop, phone} |-> IF d = laptop THEN content ELSE None]

Whole(rows) == Content(rows, FALSE, TRUE)

\* Two tabs of a device whose database is yet to be upgraded, and of one whose
\* database is empty; two devices that hold the same, or something else; and a
\* member whose company has some of it.
TheScenes ==
    <<[tasks |-> 4, writes |-> 0, device |-> OneDevice, role |-> Owners, others |-> {}, clouds |-> {{}},
       disk |-> OneDatabase(Disk("old", Whole(Catalogue)))],
      [tasks |-> 5, writes |-> 0, device |-> OneDevice, role |-> Owners, others |-> {}, clouds |-> {{}},
       disk |-> OneDatabase(Disk("old", Nothing))],
      [tasks |-> 4, writes |-> 1, device |-> TwoDevices, role |-> Owners, others |-> {"twin"},
       clouds |-> {{}},
       disk |-> [d \in {laptop, phone} |-> Disk("current", Whole(Catalogue))]],
      [tasks |-> 4, writes |-> 0, device |-> TwoDevices, role |-> Owners, others |-> {}, clouds |-> {{}},
       disk |-> [d \in {laptop, phone} |->
                   Disk("current", Whole({Says(IF d = laptop THEN "bolt" ELSE "acme", "v1")}))]],
      [tasks |-> 4, writes |-> 1, device |-> OneDevice, role |-> [t \in {t1, t2} |-> "MEMBER"],
       others |-> {"twin"},
       clouds |-> {{Says("acme", "v1")}, {Says("acme", "v2"), Says("bolt", "v1")}},
       disk |-> OneDatabase(Disk("current", Whole(Catalogue)))],
      [tasks |-> 3, writes |-> 0, device |-> OneDevice, role |-> Owners, others |-> {}, clouds |-> {{}},
       disk |-> OneDatabase(Disk("current", Content(Catalogue, TRUE, TRUE)))],
      [tasks |-> 3, writes |-> 0, device |-> OneDevice, role |-> Owners, others |-> {}, clouds |-> {{}},
       disk |-> OneDatabase(Disk("current", Content(Catalogue, FALSE, FALSE)))]>>
=============================================================================
