---------------------------- MODULE MCTelemetryPipeline ----------------------------
EXTENDS TelemetryPipeline
=====================================================================================
