----------------------------- MODULE MCPulseSlicer -----------------------------
(* Devices of every coding that r_device.h names, their widths in samples. *)
EXTENDS PulseSlicer

Device(coding, short, long, gap, sync, tol) ==
  [coding |-> coding, short |-> short, long |-> long, reset |-> 40, gap |-> gap, sync |-> sync, tol |-> tol,
   fit |-> long, clock |-> long]

MCDevices ==
  {Device("pcm", 4, 8, 24, 0, 0), Device("pcm", 4, 4, 9, 0, 0),
   [Device("pcm", 4, 8, 24, 0, 2) EXCEPT !.fit = 9, !.clock = 9],
   Device("ppm", 4, 8, 24, 0, 0), Device("ppm", 4, 8, 24, 14, 2),
   Device("pwm", 4, 8, 24, 0, 0), Device("pwm", 8, 12, 24, 4, 0), Device("pwm", 4, 12, 24, 8, 0),
   Device("pwm", 4, 8, 0, 12, 0), Device("pwm", 4, 8, 24, 12, 2),
   Device("manchester", 6, 0, 0, 0, 0), Device("manchester", 6, 0, 0, 0, 2),
   Device("dmc", 4, 8, 0, 0, 2), Device("piwm_raw", 4, 9, 0, 0, 2), Device("piwm_dc", 4, 8, 0, 0, 2),
   Device("nrzs", 4, 0, 0, 0, 0), Device("osv1", 6, 0, 0, 0, 0), Device("rzi", 4, 8, 0, 0, 0)}

(* What the theorem about messages assumes holds here. *)
ASSUME DecodableDevices == \A d \in Devices : Decodable(d)
ASSUME ShortPackages == MaxPulses <= (Rows - 1) * RowBits
=============================================================================
