------------------------------ MODULE ReadyState ------------------------------
(* The ready state of one peer and the webrtc callbacks that change it. *)

ReadyStates == {"closed", "connecting", "open", "disconnected", "failed"}

Terminal == {"closed", "failed"}

StateEvents == {"ChannelOpened", "ChannelClosed", "PeerConnected",
                "PeerDisconnected", "PeerFailed", "PeerClosed"}

\* apply_event: closed and failed are terminal.
ApplyEvent(state, event) ==
    CASE state \in Terminal -> state
      [] state \notin Terminal /\ event \in {"ChannelClosed", "PeerClosed"} -> "closed"
      [] state \notin Terminal /\ event = "PeerFailed" -> "failed"
      [] state = "connecting" /\ event = "ChannelOpened" -> "open"
      [] state = "open" /\ event = "PeerDisconnected" -> "disconnected"
      [] state = "disconnected" /\ event = "PeerConnected" -> "open"
      [] OTHER -> state

=============================================================================
