----------------------------- MODULE MCJobStore -----------------------------
(***************************************************************************)
(* Two savers.  Both come across the same vietnamworks advertisement (two  *)
(* overlapping runs); besides, each has an advertisement of its own, of    *)
(* two sites that number them alike, and one of them a careerbuilder       *)
(* advertisement with the number of the shared one.  Vlance: two           *)
(* advertisements without a number.                                        *)
(***************************************************************************)
EXTENDS JobStore, TLC

Ad(site, number, link) == [site |-> site, number |-> number, link |-> link]

MCSavers == {"s1", "s2"}
MCFields == {"salary"}
Shared == Ad("vietnamworks", "7", "v")
MCAdvertsOf == "s1" :> {Shared, Ad("topcv", "1", "t")}
            @@ "s2" :> {Shared, Ad("jobsgo", "1", "j"), Ad("careerbuilder", "7", "c")}
MCAdverts == UNION {MCAdvertsOf[s] : s \in MCSavers}

VlanceAdverts == {Ad("vlance", "", "a"), Ad("vlance", "", "b"), Ad("vlance", "9", "c")}
VlanceSaver == {"s1"}
VlanceAdvertsOf == "s1" :> VlanceAdverts
============================================================================
