-------------------------- MODULE MCCompanyGroups --------------------------
(* Two companies and two groups, a manager and a sender, one document and  *)
(* one report.                                                             *)
EXTENDS CompanyGroups, TLC

CONSTANTS m, s, cA, cB, g1, g2, inv, rep, d1

MCReportCompany == (rep :> cA)
MCSymmetry == Permutations({g1, g2})
=============================================================================
