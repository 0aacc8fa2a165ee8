----------------------------- MODULE DashboardMC ------------------------------
(* A small instance of Dashboard: two stations, two positions of the slider.    *)
EXTENDS Dashboard
=============================================================================
