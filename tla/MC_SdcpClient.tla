---------------------------- MODULE MC_SdcpClient ----------------------------
EXTENDS SdcpClient, TLC
CONSTANTS image, coordinator

\* The image asks for the detail of the task, the coordinator lists the tasks too.
Asked == image :> {"detail"} @@ coordinator :> {"detail", "list"}
=============================================================================
