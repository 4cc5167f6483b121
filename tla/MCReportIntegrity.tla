-------------------------- MODULE MCReportIntegrity --------------------------
EXTENDS ReportIntegrity

MCVersions == {1, 2}
=============================================================================
