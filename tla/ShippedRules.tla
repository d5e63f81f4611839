---------------------------- MODULE ShippedRules ----------------------------
(***************************************************************************)
(* The entries of every action of the shipped rule files, in the order of  *)
(* the files: action r is entry r + 1 of the sequence.                     *)
(***************************************************************************)
EXTENDS Integers

\* simpledemo.smt
DemoActions == <<
  \* 0 DoNothing
  <<>>,
  \* 1 SomebodyOutside
  <<24, 0, 23, 2, 16, 28, 7, 2, 0, 1, 0, 0, 0, 120>>,
  \* 2 GoingDark
  <<24, 0, 23, 1, 16, 28, 2, 30, 4>>,
  \* 3 ItsLight
  <<23, 0, 25, 0>>,
  \* 4 ItsDark
  <<23, 2, 25, 0>>,
  \* 5 RefreshDevicesAndResynchClock
  <<33, 32>>,
  \* 6 RefreshDevices
  <<32>>
  >>

\* smart.smt
SmartActions == <<
  \* 0 philipsOff
  <<2, 60, 0, 0, 0, 0, 0, 2, 61, 0, 0, 0, 0, 0, 2, 62, 0, 0, 0, 0, 0, 2, 63, 0, 0, 0, 0, 0, 2,
    64, 0, 0, 0, 0, 0, 2, 65, 0, 0, 0, 0, 0>>,
  \* 1 philipsOn
  <<2, 60, 1, 16711680, 0, 0, 43200, 2, 61, 1, 32768, 0, 0, 43200, 2, 62, 1, 255, 0, 0, 43200,
    2, 63, 13, 16711680, 1, 0, 43200, 2, 64, 13, 32768, 1, 0, 43200, 2, 65, 13, 255, 1, 0,
    43200>>,
  \* 2 TvOn
  <<30, 35, 30, 19>>,
  \* 3 TvOff
  <<30, 36, 30, 20>>,
  \* 4 AllOffB
  <<30, 37, 24, 7, 23, 3, 16, 24, 7, 23, 4, 16, 21, 24, 7, 23, 0, 16, 21, 28, 4, 30, 31, 26, 2,
    30, 38, 2, 42, 0, 0, 0, 0, 0>>,
  \* 5 AllOffC
  <<24, 7, 23, 4, 16, 24, 7, 23, 0, 16, 21, 28, 4, 30, 31, 26, 8, 30, 39, 30, 42, 23, 2, 25,
    7>>,
  \* 6 ActivateGoogleAlexa
  <<24, 1, 24, 7, 23, 2, 19, 22, 24, 7, 23, 1, 19, 22, 28, 7, 2, 22, 1, 0, 0, 0, 14400>>,
  \* 7 DeactivateGoogleAlexa
  <<2, 22, 0, 0, 0, 600, 0>>,
  \* 8 SomebodyIn
  <<30, 33, 23, 1, 25, 1, 24, 7, 23, 1, 16, 24, 7, 23, 2, 16, 21, 28, 5, 4, 5, 28800, 26, 3, 4,
    5, 7200, 24, 6, 28, 2, 30, 54>>,
  \* 9 SomebodyInConservatory
  <<4, 0, 600, 30, 8, 24, 0, 23, 2, 16, 28, 7, 2, 7, 1, 0, 0, 0, 120>>,
  \* 10 SomebodyInLounge
  <<30, 8, 30, 6, 24, 4, 20, 28, 2, 30, 19, 23, 1, 25, 4, 1, 12, 23, 1, 16, 28, 5, 4, 1, 5400,
    26, 3, 4, 1, 1800, 30, 22, 24, 0, 23, 2, 16, 1, 12, 23, 0, 16, 22, 28, 7, 2, 0, 1, 0, 0, 0,
    1200>>,
  \* 11 SomebodyInDiningRoom
  <<30, 8, 23, 1, 25, 5, 30, 6, 4, 2, 1200, 30, 22, 24, 0, 23, 2, 16, 1, 12, 23, 0, 16, 22, 28,
    7, 2, 3, 1, 0, 0, 0, 1200, 24, 7, 23, 2, 19, 1, 11, 23, 1, 16, 22, 1, 12, 23, 0, 16, 22, 28,
    7, 2, 10, 1, 0, 0, 0, 1800>>,
  \* 12 SomebodyInHall
  <<24, 0, 23, 2, 16, 28, 7, 2, 40, 1, 0, 0, 0, 300>>,
  \* 13 SomebodyInLanding
  <<30, 8, 24, 0, 23, 2, 16, 28, 23, 24, 7, 23, 2, 16, 28, 9, 2, 41, 1, 0, 0, 0, 120, 26, 7, 2,
    41, 1, 0, 0, 0, 300>>,
  \* 14 SomebodyInBedroom1
  <<4, 4, 1800, 30, 8, 24, 0, 23, 2, 16, 24, 7, 23, 4, 16, 24, 7, 23, 0, 16, 21, 24, 7, 23, 1,
    16, 21, 22, 28, 7, 2, 14, 1, 0, 0, 0, 1200>>,
  \* 15 SomebodyInKitchen
  <<23, 1, 25, 3, 4, 3, 1800, 30, 8, 30, 6, 30, 22, 24, 0, 23, 2, 16, 28, 7, 2, 42, 1, 0, 0, 0,
    600, 24, 7, 23, 2, 19, 28, 28, 1, 11, 23, 1, 16, 28, 7, 2, 10, 1, 0, 0, 0, 1200, 1, 12, 23,
    1, 16, 28, 7, 2, 13, 1, 0, 0, 0, 5400>>,
  \* 16 SomebodyInUtilityRoom
  <<30, 8, 24, 0, 23, 2, 16, 28, 7, 2, 5, 1, 0, 0, 0, 180>>,
  \* 17 TvInBed
  <<>>,
  \* 18 DownstairsHifiOn
  <<24, 7, 23, 2, 19, 28, 9, 2, 10, 1, 0, 0, 0, 43200, 26, 7, 2, 10, 0, 0, 0, 0, 0, 2, 11, 1, 0,
    0, 0, 43200, 2, 12, 0, 0, 0, 0, 0, 2, 13, 0, 0, 0, 0, 0>>,
  \* 19 TvLights
  <<1, 12, 23, 1, 16, 24, 0, 23, 2, 16, 22, 28, 70, 2, 3, 0, 0, 0, 0, 0, 2, 0, 0, 0, 0, 0, 0, 2,
    1, 0, 0, 0, 0, 0, 2, 2, 1, 0, 0, 0, 43200, 2, 60, 13, 8388564, 1, 0, 43200, 2, 61, 13,
    16747520, 1, 0, 43200, 2, 62, 13, 1644912, 1, 0, 43200, 2, 63, 13, 14524637, 1, 0, 43200, 2,
    64, 13, 10025880, 1, 0, 43200, 2, 65, 13, 32896, 1, 0, 43200>>,
  \* 20 TvLightsOff
  <<2, 2, 0, 0, 0, 0, 0, 2, 3, 0, 0, 0, 0, 0, 2, 0, 0, 0, 0, 0, 0, 2, 1, 0, 0, 0, 0, 0, 2, 2, 0,
    0, 0, 0, 0, 2, 4, 0, 0, 0, 0, 0, 2, 60, 0, 0, 0, 0, 0, 2, 61, 0, 0, 0, 0, 0, 2, 62, 0, 0, 0,
    0, 0, 2, 63, 0, 0, 0, 0, 0, 2, 64, 0, 0, 0, 0, 0, 2, 65, 0, 0, 0, 0, 0, 2, 60, 0, 0, 0, 0,
    0, 2, 61, 0, 0, 0, 0, 0, 2, 62, 0, 0, 0, 0, 0, 2, 63, 0, 0, 0, 0, 0, 2, 64, 0, 0, 0, 0, 0,
    2, 65, 0, 0, 0, 0, 0, 24, 0, 23, 2, 16, 24, 4, 22, 28, 7, 2, 0, 1, 0, 0, 0, 1200, 24, 0, 23,
    2, 16, 24, 5, 22, 28, 7, 2, 3, 1, 0, 0, 0, 1200>>,
  \* 21 OffLoungeLEDLights
  <<2, 2, 0, 0, 0, 0, 0>>,
  \* 22 WakeUpDownstairsCheck
  <<24, 7, 23, 3, 16, 24, 7, 23, 4, 16, 21, 28, 2, 30, 35>>,
  \* 23 NoOneInConservatory
  <<2, 6, 0, 0, 0, 0, 0, 2, 7, 0, 0, 0, 0, 0, 2, 8, 0, 0, 0, 0, 0>>,
  \* 24 NoOneInLounge
  <<23, 0, 25, 4, 2, 0, 0, 0, 0, 0, 0, 2, 1, 0, 0, 0, 0, 0, 2, 2, 0, 0, 0, 0, 0, 2, 4, 0, 0, 0,
    0, 0, 2, 60, 0, 0, 0, 0, 0, 2, 61, 0, 0, 0, 0, 0, 2, 62, 0, 0, 0, 0, 0, 2, 63, 0, 0, 0, 0,
    0, 2, 64, 0, 0, 0, 0, 0, 2, 65, 0, 0, 0, 0, 0>>,
  \* 25 NoOneInDiningRoom
  <<23, 0, 25, 5, 23, 0, 1, 12, 16, 28, 7, 2, 3, 0, 0, 0, 0, 0>>,
  \* 26 NoOneInKitchen
  <<23, 0, 25, 3, 2, 42, 0, 0, 0, 0, 0>>,
  \* 27 NoOneinBedroom1
  <<2, 14, 0, 0, 0, 0, 0, 2, 15, 0, 0, 0, 0, 0, 2, 16, 0, 0, 0, 0, 0, 2, 17, 0, 0, 0, 0, 0, 2,
    18, 0, 0, 0, 0, 0>>,
  \* 28 NoOneinHouse
  <<30, 31>>,
  \* 29 DownstairsSetAmplifierToShowFs
  <<2, 24, 0, 0, 0, 0, 0, 2, 29, 0, 0, 0, 0, 0>>,
  \* 30 DownstairsSetAmplifierToListen
  <<2, 38, 0, 0, 0, 0, 0, 2, 39, 0, 0, 0, 0, 0>>,
  \* 31 AllGoOut
  <<23, 0, 25, 1, 30, 39, 30, 32, 32>>,
  \* 32 SecurityLights
  <<24, 1, 20, 28, 58, 2, 23, 1, 0, 0, 0, 43200, 24, 0, 23, 2, 16, 28, 23, 2, 3, 1, 0, 0, 0,
    1200, 2, 0, 1, 0, 0, 1140, 2400, 2, 14, 1, 0, 0, 2340, 3600, 26, 21, 2, 3, 0, 0, 0, 0, 0, 2,
    0, 0, 0, 0, 0, 0, 2, 14, 0, 0, 0, 0, 0>>,
  \* 33 SecurityStop
  <<24, 1, 20, 28, 28, 2, 23, 0, 0, 0, 0, 0, 2, 3, 0, 0, 0, 0, 0, 2, 0, 0, 0, 0, 0, 0, 2, 14, 0,
    0, 0, 0, 0>>,
  \* 34 AllLightsOff
  <<2, 6, 0, 0, 0, 0, 0, 2, 7, 0, 0, 0, 0, 0, 2, 8, 0, 0, 0, 0, 0, 2, 0, 0, 0, 0, 0, 0, 2, 1, 0,
    0, 0, 0, 0, 2, 2, 0, 0, 0, 0, 0, 2, 4, 0, 0, 0, 0, 0, 2, 60, 0, 0, 0, 0, 0, 2, 61, 0, 0, 0,
    0, 0, 2, 62, 0, 0, 0, 0, 0, 2, 63, 0, 0, 0, 0, 0, 2, 64, 0, 0, 0, 0, 0, 2, 65, 0, 0, 0, 0,
    0, 2, 3, 0, 0, 0, 0, 0, 2, 40, 0, 0, 0, 0, 0, 2, 41, 0, 0, 0, 0, 0, 2, 14, 0, 0, 0, 0, 0, 2,
    15, 0, 0, 0, 0, 0, 2, 16, 0, 0, 0, 0, 0, 2, 17, 0, 0, 0, 0, 0, 2, 18, 0, 0, 0, 0, 0, 2, 42,
    0, 0, 0, 0, 0, 2, 5, 0, 0, 0, 0, 0, 2, 43, 0, 0, 0, 0, 0>>,
  \* 35 DownstairsTvOn
  <<24, 2, 20, 28, 32, 2, 34, 1, 0, 0, 0, 43200, 23, 1, 25, 2, 2, 25, 1, 0, 0, 0, 43200, 2, 33,
    1, 0, 0, 0, 43200, 2, 33, 1, 0, 0, 0, 43200, 24, 7, 23, 2, 19, 28, 20, 24, 3, 28, 14, 2, 10,
    1, 0, 0, 0, 43200, 2, 13, 1, 0, 0, 0, 43200, 26, 14, 2, 10, 0, 0, 0, 0, 0, 2, 13, 0, 0, 0,
    0, 0, 2, 11, 1, 0, 0, 0, 43200, 4, 6, 20, 2, 12, 1, 0, 0, 0, 43200>>,
  \* 36 DownstairsTvOff
  <<30, 37, 2, 13, 0, 0, 0, 0, 0, 2, 12, 0, 0, 0, 0, 0>>,
  \* 37 SetFsatReceiverToStandby
  <<24, 2, 28, 11, 2, 34, 0, 0, 0, 0, 0, 23, 0, 25, 2>>,
  \* 38 AllOffDownstairs
  <<23, 0, 25, 3, 23, 0, 25, 4, 23, 0, 25, 5, 2, 6, 0, 0, 0, 0, 0, 2, 7, 0, 0, 0, 0, 0, 2, 8, 0,
    0, 0, 0, 0, 2, 0, 0, 0, 0, 0, 0, 2, 1, 0, 0, 0, 0, 0, 2, 2, 0, 0, 0, 0, 0, 2, 4, 0, 0, 0, 0,
    0, 2, 9, 0, 0, 0, 0, 0, 2, 11, 0, 0, 0, 0, 0, 2, 12, 0, 0, 0, 0, 0, 2, 3, 0, 0, 0, 0, 0, 2,
    10, 0, 0, 0, 0, 0, 2, 13, 0, 0, 0, 0, 0, 2, 42, 0, 0, 0, 0, 0, 2, 5, 0, 0, 0, 0, 0, 30, 7,
    30, 37>>,
  \* 39 AllOff
  <<30, 38, 2, 40, 0, 0, 0, 0, 0, 2, 41, 0, 0, 0, 0, 0, 2, 14, 0, 0, 0, 0, 0, 2, 15, 0, 0, 0, 0,
    0, 2, 16, 0, 0, 0, 0, 0, 2, 17, 0, 0, 0, 0, 0, 2, 18, 0, 0, 0, 0, 0, 2, 19, 0, 0, 0, 0, 0,
    2, 20, 0, 0, 0, 0, 0, 2, 21, 0, 0, 0, 0, 0>>,
  \* 40 WakeUpGently
  <<24, 1, 28, 7, 2, 19, 1, 0, 0, 0, 7320>>,
  \* 41 WakeUp
  <<24, 1, 28, 14, 2, 19, 1, 0, 0, 0, 3720, 2, 14, 1, 0, 0, 60, 600>>,
  \* 42 AllInBed
  <<2, 43, 0, 0, 0, 0, 0>>,
  \* 43 GoingDark
  <<24, 0, 23, 1, 16, 28, 2, 30, 46>>,
  \* 44 ItsLight
  <<23, 0, 25, 0, 30, 34, 30, 33>>,
  \* 45 ItsNearlyDark
  <<23, 1, 25, 0>>,
  \* 46 ItsDark
  <<23, 2, 25, 0, 2, 43, 1, 0, 0, 0, 43200, 30, 32, 30, 19>>,
  \* 47 ItsDayTime
  <<23, 0, 25, 7>>,
  \* 48 ItsBedtime
  <<23, 1, 25, 7>>,
  \* 49 ItsSleepTime
  <<23, 2, 25, 7>>,
  \* 50 ItsEarliestWakeUpTime
  <<23, 3, 25, 7>>,
  \* 51 ItsGettingUpTime
  <<23, 4, 25, 7>>,
  \* 52 RadioNewsOn
  <<23, 1, 25, 6, 30, 54>>,
  \* 53 RadioNewsOff
  <<23, 0, 25, 6, 30, 54>>,
  \* 54 EveningNews
  <<24, 6, 28, 36, 1, 11, 23, 0, 16, 24, 1, 22, 28, 24, 2, 11, 1, 0, 0, 0, 43200, 2, 10, 1, 0,
    0, 0, 43200, 2, 19, 1, 0, 0, 0, 43200, 4, 7, 20, 26, 28, 1, 12, 23, 0, 16, 28, 21, 2, 11, 0,
    0, 0, 0, 0, 2, 10, 0, 0, 0, 0, 0, 2, 19, 0, 0, 0, 0, 0>>,
  \* 55 RefreshDevicesAndResynchClock
  <<33, 32>>,
  \* 56 RefreshDevices
  <<32>>
  >>
=============================================================================
